---- MODULE Spec2Model ----
(***************************************************************************)
(* Annotation and quick-range materialization of devstats                  *)
(* (rust/devstats-cli/src/annotations.rs) and its metric calculation       *)
(* (rust/devstats-cli/src/calc_metric.rs).                                 *)
(*                                                                         *)
(* Instants are whole seconds since the Unix epoch.  A string is a         *)
(* sequence of chunks; a chunk is a TLA+ string that is either one         *)
(* character or a literal piece of text without control characters.        *)
(* An Option value is a set: {} is None and {v} is Some(v).                *)
(***************************************************************************)
EXTENDS Integers, Sequences, FiniteSets, Bags, TLC

VARIABLES
    pc,             \* position of the run inside make_annotations
    build,          \* the build profile of the binary
    proj,           \* the project's entry of projects.yaml
    git,            \* outcome and stdout of the git tag command
    ctx,            \* the flags of Context the run reads
    clock,          \* the wall clock (chrono::Utc::now)
    annotations,    \* Annotations returned by get_annotations / get_fake_annotations
    dates,          \* the five dates handed to process_annotations
    pts,            \* the batch of TSPoints built by process_annotations
    todo,           \* tables of the batch that are not inserted yet
    db,             \* the project database: table name -> bag of rows
    shared,         \* the shared ('allprj') database
    run,            \* number of the current run
    hist,           \* outcome of each finished run
    nowlog,         \* the readings of the clock the run has taken
    faults,         \* number of statements and connections that have failed
    calc            \* the invocation of calc_metric

vars == <<pc, build, proj, git, ctx, clock, annotations, dates, pts, todo,
          db, shared, run, hist, nowlog, faults, calc>>

\* the variables of make_annotations
annVars == <<pc, build, proj, git, ctx, clock, annotations, dates, pts, todo,
             db, shared, run, hist, nowlog, faults>>

----------------------------------------------------------------------------
(* Options *)

None == {}
Some(v) == {v}
IsSome(o) == o # {}
IsNone(o) == o = {}
Unwrap(o) == CHOOSE v \in o : TRUE

----------------------------------------------------------------------------
(* Time *)

Minute == 60
Hour == 3600
Day == 86400

\* chrono::Utc.with_ymd_and_hms(2012, 7, 1, 0, 0, 0)
MinDate == 1341100800

HourStart(t) == t - (t % Hour)

NextDayStart(t) == (t - (t % Day)) + Day

----------------------------------------------------------------------------
(* Strings *)

Digits == <<"0", "1", "2", "3", "4", "5", "6", "7", "8", "9">>

IsDigit(c) == \E i \in 1..10 : Digits[i] = c

DigitVal(c) == (CHOOSE i \in 1..10 : Digits[i] = c) - 1

RECURSIVE IntToStr(_)
IntToStr(n) ==
    IF n < 10 THEN <<Digits[n + 1]>>
    ELSE IntToStr(n \div 10) \o <<Digits[(n % 10) + 1]>>

RECURSIVE Pad(_, _)
Pad(s, w) == IF Len(s) >= w THEN s ELSE Pad(<<"0">> \o s, w)

RECURSIVE StrToNat(_)
StrToNat(s) ==
    IF Len(s) = 0 THEN 0
    ELSE 10 * StrToNat(SubSeq(s, 1, Len(s) - 1)) + DigitVal(s[Len(s)])

\* str::parse::<i64>: an optional sign followed by at least one digit
ParseI64(s) ==
    LET signed == Len(s) > 0 /\ s[1] \in {"-", "+"}
        body == IF signed THEN SubSeq(s, 2, Len(s)) ELSE s
    IN  IF Len(body) = 0 \/ \E i \in 1..Len(body) : ~IsDigit(body[i])
        THEN None
        ELSE Some(IF signed /\ s[1] = "-" THEN 0 - StrToNat(body) ELSE StrToNat(body))

\* the calendar date of a day number (days since 1970-01-01), by era of 400
\* years (146097 days), year of the era, day of the year counted from 1 March
\* and month counted from March
CivilOfMonth(y, doy, mp) ==
    [y |-> IF mp < 10 THEN y ELSE y + 1,
     m |-> IF mp < 10 THEN mp + 3 ELSE mp - 9,
     d |-> doy - ((153 * mp + 2) \div 5) + 1]

CivilOfYearDay(y, doy) == CivilOfMonth(y, doy, (5 * doy + 2) \div 153)

CivilOfYear(era, doe, yoe) ==
    CivilOfYearDay(yoe + era * 400, doe - (365 * yoe + (yoe \div 4) - (yoe \div 100)))

CivilOfEra(era, doe) ==
    CivilOfYear(era, doe,
        (doe - (doe \div 1460) + (doe \div 36524) - (doe \div 146096)) \div 365)

CivilFromDays(days) ==
    CivilOfEra((days + 719468) \div 146097, (days + 719468) % 146097)

FormatYMD(c) ==
    Pad(IntToStr(c.y), 4) \o <<"-">> \o Pad(IntToStr(c.m), 2) \o <<"-">>
        \o Pad(IntToStr(c.d), 2)

\* dt.format("%Y-%m-%d")
ToYMDDate(t) == FormatYMD(CivilFromDays(t \div Day))

\* dt.format("%Y-%m-%d %H:%M:%S")
ToYMDHMSDate(t) ==
    ToYMDDate(t) \o <<" ">> \o Pad(IntToStr((t % Day) \div Hour), 2) \o <<":">>
        \o Pad(IntToStr((t % Hour) \div Minute), 2) \o <<":">>
        \o Pad(IntToStr(t % Minute), 2)

\* characters that char::is_control holds of
ControlChars == {"\n", "\r", "\t", "\f", "<NUL>", "<ESC>"}

\* characters that str::trim removes
WhiteSpace == {" ", "\n", "\r", "\t", "\f"}

KeepChar(c) == c \notin ControlChars \/ c \in {"\n", "\r", "\t"}

\* s.chars().filter(|c| !c.is_control() || *c == '\n' || *c == '\r' || *c == '\t')
SanitizeUTF8(s) == SelectSeq(s, KeepChar)

RECURSIVE TrimStart(_)
TrimStart(s) ==
    IF Len(s) > 0 /\ s[1] \in WhiteSpace THEN TrimStart(Tail(s)) ELSE s

RECURSIVE TrimEnd(_)
TrimEnd(s) ==
    IF Len(s) > 0 /\ s[Len(s)] \in WhiteSpace
    THEN TrimEnd(SubSeq(s, 1, Len(s) - 1)) ELSE s

\* characters that take two and three bytes in UTF-8; all others take one
TwoByteChars == {"<e-acute>"}
ThreeByteChars == {"<euro>"}

UTF8Len(c) == IF c \in TwoByteChars THEN 2 ELSE IF c \in ThreeByteChars THEN 3 ELSE 1

\* str::len: the length in bytes
RECURSIVE ByteLen(_)
ByteLen(s) == IF Len(s) = 0 THEN 0 ELSE UTF8Len(s[1]) + ByteLen(Tail(s))

\* str::replace(from, " ")
ReplaceWithSpace(s, from) == [i \in 1..Len(s) |-> IF s[i] = from THEN " " ELSE s[i]]

----------------------------------------------------------------------------
(* Annotations *)

MaxMessage == 40

Annotation(name, description, date) ==
    [name |-> name, description |-> description, date |-> date]

\* the separator of the fields of a tag line (the two characters are one chunk)
Sep == "<male><female>"

\* str::split(sep)
RECURSIVE Split(_, _)
Split(s, sep) ==
    IF \A i \in 1..Len(s) : s[i] # sep THEN <<s>>
    ELSE LET k == CHOOSE i \in 1..Len(s) : s[i] = sep /\ \A j \in 1..(i - 1) : s[j] # sep
         IN  <<SubSeq(s, 1, k - 1)>> \o Split(SubSeq(s, k + 1, Len(s)), sep)

\* str::trim
Trim(s) == TrimEnd(TrimStart(s))

\* the description of a tag: None when the byte slice panics
Message(subject) ==
    IF ByteLen(subject) > MaxMessage
    THEN LET cut == {k \in 0..Len(subject) : ByteLen(SubSeq(subject, 1, k)) = MaxMessage}
         IN  IF cut = {} THEN None
             ELSE Some(ReplaceWithSpace(ReplaceWithSpace(ReplaceWithSpace(
                        SubSeq(subject, 1, CHOOSE k \in cut : TRUE), "\n"), "\r"), "\t"))
    ELSE Some(ReplaceWithSpace(ReplaceWithSpace(ReplaceWithSpace(subject, "\n"), "\r"), "\t"))

RECURSIVE ParseTags(_, _, _)

\* ParseTag without the comparison with the epoch floor
ParseTagNoFloor(tag_name, ts, unix_time_stamp, message, rest, re, acc) ==
    IF IsSome(re) /\ tag_name \notin Unwrap(re) THEN ParseTags(rest, re, acc)
    ELSE IF ts = <<>> THEN ParseTags(rest, re, acc)
    ELSE IF IsNone(unix_time_stamp) THEN ParseTags(rest, re, acc)
    ELSE IF IsNone(message) THEN [status |-> "panic", annotations |-> <<>>]
    ELSE ParseTags(rest, re, Append(acc,
            Annotation(tag_name, Unwrap(message), Unwrap(unix_time_stamp))))

\* the body of the loop for a line of three fields
ParseTag(tag_name, ts, unix_time_stamp, message, rest, re, acc) ==
    IF IsSome(re) /\ tag_name \notin Unwrap(re) THEN ParseTags(rest, re, acc)
    ELSE IF ts = <<>> THEN ParseTags(rest, re, acc)
    ELSE IF IsNone(unix_time_stamp) THEN ParseTags(rest, re, acc)
    ELSE IF Unwrap(unix_time_stamp) < MinDate THEN ParseTags(rest, re, acc)
    ELSE IF IsNone(message) THEN [status |-> "panic", annotations |-> <<>>]
    ELSE ParseTags(rest, re, Append(acc,
            Annotation(tag_name, Unwrap(message), Unwrap(unix_time_stamp))))

\* ParseLine that skips a line which has not three fields
ParseLineSkipping(data, tag_data_ary, rest, re, acc) ==
    IF data = <<>> THEN ParseTags(rest, re, acc)
    ELSE IF Len(tag_data_ary) # 3 THEN ParseTags(rest, re, acc)
    ELSE ParseTag(tag_data_ary[1], tag_data_ary[2], ParseI64(tag_data_ary[2]),
                  Message(tag_data_ary[3]), rest, re, acc)

\* the body of the loop for a trimmed line and its fields
ParseLine(data, tag_data_ary, rest, re, acc) ==
    IF data = <<>> THEN ParseTags(rest, re, acc)
    ELSE IF Len(tag_data_ary) # 3 THEN [status |-> "exit", annotations |-> <<>>]
    ELSE ParseTag(tag_data_ary[1], tag_data_ary[2], ParseI64(tag_data_ary[2]),
                  Message(tag_data_ary[3]), rest, re, acc)

SplitLine(data, rest, re, acc) == ParseLine(data, Split(data, Sep), rest, re, acc)

\* the loop over the tag lines: "exit" is std::process::exit(1)
ParseTags(lines, re, acc) ==
    IF Len(lines) = 0 THEN [status |-> "ok", annotations |-> acc]
    ELSE SplitLine(Trim(Head(lines)), Tail(lines), re, acc)

\* slice::sort_by(|a, b| a.date.cmp(&b.date)): a stable sort
InsertByDate(sorted, x) ==
    LET k == Cardinality({i \in 1..Len(sorted) : sorted[i].date <= x.date})
    IN  SubSeq(sorted, 1, k) \o <<x>> \o SubSeq(sorted, k + 1, Len(sorted))

RECURSIVE SortByDate(_)
SortByDate(s) ==
    IF Len(s) <= 1 THEN s
    ELSE InsertByDate(SortByDate(SubSeq(s, 1, Len(s) - 1)), s[Len(s)])

\* FilterHours comparing the dates themselves instead of their hours
RECURSIVE FilterHoursExact(_, _, _)
FilterHoursExact(anns, prev_date, filtered_annotations) ==
    IF Len(anns) = 0 THEN filtered_annotations
    ELSE IF Head(anns).date = prev_date
        THEN FilterHoursExact(Tail(anns), prev_date, filtered_annotations)
    ELSE FilterHoursExact(Tail(anns), Head(anns).date,
                          Append(filtered_annotations, Head(anns)))

\* the loop that removes annotations falling into the same hour
RECURSIVE FilterHours(_, _, _)
FilterHours(anns, prev_hour_date, filtered_annotations) ==
    IF Len(anns) = 0 THEN filtered_annotations
    ELSE
        LET curr_hour_date == HourStart(Head(anns).date)
        IN  IF curr_hour_date = prev_hour_date
            THEN FilterHours(Tail(anns), prev_hour_date, filtered_annotations)
            ELSE FilterHours(Tail(anns), curr_hour_date,
                             Append(filtered_annotations, Head(anns)))

RemoveDuplicates(anns) == FilterHours(SortByDate(anns), MinDate, <<>>)

\* the end of get_annotations: parsed is the outcome of the loop
Deduplicated(parsed) ==
    IF parsed.status # "ok" THEN parsed
    ELSE [status |-> "ok", annotations |-> RemoveDuplicates(parsed.annotations)]

\* anno_regexp is [text, valid, matches]: the pattern, whether it compiles,
\* and the tag names Regex::is_match holds of
CompileRegexp(anno_regexp) ==
    IF anno_regexp.text = <<>> THEN None ELSE Some(anno_regexp.matches)

\* g is the outcome of the git tag command: [ok, stdout], stdout as its lines
GetAnnotations(org_repo, anno_regexp, g) ==
    IF Len(Split(org_repo, "/")) # 2 THEN [status |-> "exit", annotations |-> <<>>]
    ELSE IF anno_regexp.text # <<>> /\ ~anno_regexp.valid
        THEN [status |-> "err", annotations |-> <<>>]
    ELSE IF ~g.ok THEN [status |-> "exit", annotations |-> <<>>]
    ELSE Deduplicated(ParseTags(g.stdout, CompileRegexp(anno_regexp), <<>>))

\* the text of a literal
Lit(s) == <<s>>

\* GetFakeAnnotations without the comparisons with the epoch floor
GetFakeAnnotationsNoFloor(start_date, join_date) ==
    IF join_date <= start_date
    THEN <<>>
    ELSE << Annotation(Lit("Project start"),
                       ToYMDDate(start_date) \o Lit(" - project starts"), start_date),
            Annotation(Lit("First CNCF project join date"),
                       ToYMDDate(join_date), join_date) >>

GetFakeAnnotations(start_date, join_date) ==
    IF join_date < MinDate \/ start_date < MinDate \/ join_date <= start_date
    THEN <<>>
    ELSE << Annotation(Lit("Project start"),
                       ToYMDDate(start_date) \o Lit(" - project starts"), start_date),
            Annotation(Lit("First CNCF project join date"),
                       ToYMDDate(join_date), join_date) >>

----------------------------------------------------------------------------
(* Time series points *)

TSPoint(name, period, tags, fields, time, exact) ==
    [name |-> name, period |-> period, tags |-> tags, fields |-> fields,
     time |-> IF exact THEN time ELSE HourStart(time)]

AnnotationPoint(title, description, date) ==
    TSPoint("annotations", <<>>, None,
            Some([title |-> title, description |-> description]), date, FALSE)

QuickRangePoint(suffix, name, data, tm) ==
    TSPoint("quick_ranges", <<>>,
            Some([quick_ranges_suffix |-> suffix, quick_ranges_name |-> name,
                  quick_ranges_data |-> data]),
            None, tm, FALSE)

\* format!("{};{};;", suffix, data)
PeriodData(suffix, data) == suffix \o <<";">> \o data \o <<";", ";">>

\* format!("{};;{};{}", sfx, to_ymdhms_date(from), to_ymdhms_date(to))
RangeData(sfx, from, to) ==
    sfx \o <<";", ";">> \o ToYMDHMSDate(from) \o <<";">> \o ToYMDHMSDate(to)

RangePoint(sfx, name, from, to, tm) ==
    QuickRangePoint(sfx, name, RangeData(sfx, from, to), tm)

periods ==
    << <<<<"d">>, Lit("Last day"), Lit("1 day")>>,
       <<<<"w">>, Lit("Last week"), Lit("1 week")>>,
       <<<<"d", "1", "0">>, Lit("Last 10 days"), Lit("10 days")>>,
       <<<<"m">>, Lit("Last month"), Lit("1 month")>>,
       <<<<"q">>, Lit("Last quarter"), Lit("3 months")>>,
       <<<<"m", "6">>, Lit("Last 6 months"), Lit("6 months")>>,
       <<<<"y">>, Lit("Last year"), Lit("1 year")>>,
       <<<<"y", "2">>, Lit("Last 2 years"), Lit("2 years")>>,
       <<<<"y", "3">>, Lit("Last 3 years"), Lit("3 years")>>,
       <<<<"y", "5">>, Lit("Last 5 years"), Lit("5 years")>>,
       <<<<"y", "1", "0">>, Lit("Last decade"), Lit("10 years")>>,
       <<<<"y", "1", "0", "0">>, Lit("Last century"), Lit("100 years")>> >>

SfxCB == <<"c", "_", "b">>
SfxCN == <<"c", "_", "n">>
SfxCJI == <<"c", "_", "j", "_", "i">>
SfxCIG == <<"c", "_", "i", "_", "g">>
SfxCIN == <<"c", "_", "i", "_", "n">>
SfxCJG == <<"c", "_", "j", "_", "g">>
SfxCGN == <<"c", "_", "g", "_", "n">>

\* format!("a_{}_n", index) and format!("a_{}_{}", index, index + 1)
SfxLast(index) == <<"a", "_">> \o IntToStr(index) \o <<"_", "n">>
SfxPair(index) == <<"a", "_">> \o IntToStr(index) \o <<"_">> \o IntToStr(index + 1)

\* PeriodPoints with a loop that skips the first period
PeriodPointsFromSecond(tm) ==
    [i \in 1..(Len(periods) - 1) |->
        QuickRangePoint(periods[i + 1][1], periods[i + 1][2],
                        PeriodData(periods[i + 1][1], periods[i + 1][3]),
                        tm + (i - 1) * Hour)]

\* the points of the special periods
PeriodPoints(tm) ==
    [i \in 1..Len(periods) |->
        QuickRangePoint(periods[i][1], periods[i][2],
                        PeriodData(periods[i][1], periods[i][3]), tm + (i - 1) * Hour)]

\* AnnotationRangePoints without the range of the last annotation
AnnotationRangePointsNoLast(sorted_annotations, tm, now) ==
    [i \in 1..(Len(sorted_annotations) - 1) |->
        RangePoint(SfxPair(i - 1),
                   SanitizeUTF8(sorted_annotations[i].name) \o Lit(" - ")
                       \o SanitizeUTF8(sorted_annotations[i + 1].name),
                   sorted_annotations[i].date, sorted_annotations[i + 1].date,
                   tm + (i - 1) * Hour)]

\* the points of the '(i) - (i+1)' annotation ranges; now is the clock
\* reading taken for the last annotation
AnnotationRangePoints(sorted_annotations, tm, now) ==
    [i \in 1..Len(sorted_annotations) |->
        LET index == i - 1
            annotation == sorted_annotations[i]
        IN  IF index = Len(sorted_annotations) - 1
            THEN RangePoint(SfxLast(index),
                            SanitizeUTF8(annotation.name) \o Lit(" - now"),
                            annotation.date, NextDayStart(now), tm + index * Hour)
            ELSE RangePoint(SfxPair(index),
                            SanitizeUTF8(annotation.name) \o Lit(" - ")
                                \o SanitizeUTF8(sorted_annotations[i + 1].name),
                            annotation.date, sorted_annotations[i + 1].date,
                            tm + index * Hour)]

\* JoinedAfterStart without the comparison of the two dates
StartAndJoinPresent(start_date, join_date) ==
    IsSome(start_date) /\ IsSome(join_date)

\* the start and join dates are present and the join date is the later one
JoinedAfterStart(start_date, join_date) ==
    IsSome(start_date) /\ IsSome(join_date) /\ Unwrap(join_date) > Unwrap(start_date)

\* CorrectOrder that never rejects
AnyOrder(incubating_date, graduated_date) == TRUE

\* with both dates present, graduation must come after the move to incubation
CorrectOrder(incubating_date, graduated_date) ==
    IF IsSome(incubating_date) /\ IsSome(graduated_date)
    THEN Unwrap(graduated_date) > Unwrap(incubating_date)
    ELSE TRUE

\* IncubatingPoints that does not advance tm after c_j_i
IncubatingPointsSameHour(join, incubating_date, graduated_date, correct_order, tm, now) ==
    IF correct_order /\ IsSome(incubating_date) /\ Unwrap(incubating_date) > join
    THEN << RangePoint(SfxCJI, Lit("CNCF join date - moved to incubation"),
                       join, Unwrap(incubating_date), tm),
            IF IsSome(graduated_date)
            THEN RangePoint(SfxCIG, Lit("Moved to incubation - graduated"),
                            Unwrap(incubating_date), Unwrap(graduated_date), tm)
            ELSE RangePoint(SfxCIN, Lit("Since moving to incubating state"),
                            Unwrap(incubating_date), NextDayStart(now), tm) >>
    ELSE <<>>

\* the 'Moved to incubating handle' block
IncubatingPoints(join, incubating_date, graduated_date, correct_order, tm, now) ==
    IF correct_order /\ IsSome(incubating_date) /\ Unwrap(incubating_date) > join
    THEN << RangePoint(SfxCJI, Lit("CNCF join date - moved to incubation"),
                       join, Unwrap(incubating_date), tm),
            IF IsSome(graduated_date)
            THEN RangePoint(SfxCIG, Lit("Moved to incubation - graduated"),
                            Unwrap(incubating_date), Unwrap(graduated_date), tm + Hour)
            ELSE RangePoint(SfxCIN, Lit("Since moving to incubating state"),
                            Unwrap(incubating_date), NextDayStart(now), tm + Hour) >>
    ELSE <<>>

\* GraduatedPoints without the comparison of the graduation and join dates
GraduatedPointsUnordered(join, incubating_date, graduated_date, correct_order, tm, now) ==
    IF correct_order /\ IsSome(graduated_date)
    THEN IF IsNone(incubating_date)
         THEN << RangePoint(SfxCJG, Lit("CNCF join date - graduated"),
                            join, Unwrap(graduated_date), tm),
                 RangePoint(SfxCGN, Lit("Since graduating"),
                            Unwrap(graduated_date), NextDayStart(now), tm + Hour) >>
         ELSE << RangePoint(SfxCGN, Lit("Since graduating"),
                            Unwrap(graduated_date), NextDayStart(now), tm) >>
    ELSE <<>>

\* GraduatedPoints that leaves out the range from graduation till now
GraduatedPointsNoNow(join, incubating_date, graduated_date, correct_order, tm, now) ==
    IF correct_order /\ IsSome(graduated_date) /\ Unwrap(graduated_date) > join
    THEN IF IsNone(incubating_date)
         THEN << RangePoint(SfxCJG, Lit("CNCF join date - graduated"),
                            join, Unwrap(graduated_date), tm) >>
         ELSE <<>>
    ELSE <<>>

\* GraduatedPoints that emits c_j_g whether or not there is an incubating date
GraduatedPointsAlwaysJG(join, incubating_date, graduated_date, correct_order, tm, now) ==
    IF correct_order /\ IsSome(graduated_date) /\ Unwrap(graduated_date) > join
    THEN << RangePoint(SfxCJG, Lit("CNCF join date - graduated"),
                       join, Unwrap(graduated_date), tm),
            RangePoint(SfxCGN, Lit("Since graduating"),
                       Unwrap(graduated_date), NextDayStart(now), tm + Hour) >>
    ELSE <<>>

\* the 'Graduated handle' block
GraduatedPoints(join, incubating_date, graduated_date, correct_order, tm, now) ==
    IF correct_order /\ IsSome(graduated_date) /\ Unwrap(graduated_date) > join
    THEN IF IsNone(incubating_date)
         THEN << RangePoint(SfxCJG, Lit("CNCF join date - graduated"),
                            join, Unwrap(graduated_date), tm),
                 RangePoint(SfxCGN, Lit("Since graduating"),
                            Unwrap(graduated_date), NextDayStart(now), tm + Hour) >>
         ELSE << RangePoint(SfxCGN, Lit("Since graduating"),
                            Unwrap(graduated_date), NextDayStart(now), tm) >>
    ELSE <<>>

\* the block of the ranges before and after joining CNCF; now_c is the clock
\* reading taken for c_n, now_x the one taken for c_i_n or for c_g_n (the
\* block emits at most one of the two); inc is what the incubating block
\* emits
JoinedPoints(start, join, incubating_date, graduated_date, correct_order, inc, tm, now_c, now_x) ==
    << RangePoint(SfxCB, Lit("Before joining CNCF"), start, join, tm),
       RangePoint(SfxCN, Lit("Since joining CNCF"), join, NextDayStart(now_c), tm + Hour) >>
    \o inc
    \o GraduatedPoints(join, incubating_date, graduated_date, correct_order,
                       tm + (2 + Len(inc)) * Hour, now_x)

MilestonePoints(start_date, join_date, incubating_date, graduated_date, tm, now_c, now_x) ==
    IF JoinedAfterStart(start_date, join_date)
    THEN JoinedPoints(Unwrap(start_date), Unwrap(join_date), incubating_date,
                      graduated_date, CorrectOrder(incubating_date, graduated_date),
                      IncubatingPoints(Unwrap(join_date), incubating_date, graduated_date,
                                       CorrectOrder(incubating_date, graduated_date),
                                       tm + 2 * Hour, now_x),
                      tm, now_c, now_x)
    ELSE <<>>

\* the quick ranges that read the clock: those anchored to now
ReadsClock(p) ==
    Unwrap(p.tags).quick_ranges_suffix \in
        {SfxCN, SfxCIN, SfxCGN} \cup {SfxLast(i) : i \in 0..9}

\* nows holds the readings of chrono::Utc::now in the order they are taken;
\* reads is how many of them the call took.  sorted_annotations.len() - 1 on
\* an empty slice panics when the build has overflow checks and wraps around
\* otherwise
QuickRanges(special, ranges, phases, underflow) ==
    IF underflow
    THEN [status |-> "panic", pts |-> special, reads |-> 0]
    ELSE [status |-> "ok", pts |-> special \o ranges \o phases,
          reads |-> Len(SelectSeq(ranges \o phases, ReadsClock))]

\* the first clock reading after those taken for n annotation ranges
NextRead(n) == IF n > 0 THEN 2 ELSE 1

CreateQuickRanges(sorted_annotations, start_date, join_date, incubating_date, graduated_date, nows, overflow_checks) ==
    QuickRanges(
        PeriodPoints(MinDate),
        AnnotationRangePoints(sorted_annotations, MinDate + Len(periods) * Hour, nows[1]),
        MilestonePoints(start_date, join_date, incubating_date, graduated_date,
                        MinDate + (Len(periods) + Len(sorted_annotations)) * Hour,
                        nows[NextRead(Len(sorted_annotations))],
                        nows[NextRead(Len(sorted_annotations)) + 1]),
        Len(sorted_annotations) = 0 /\ overflow_checks)

\* the annotation points of the start and join dates
StartJoinPoints(start_date, join_date) ==
    IF IsNone(start_date) \/ IsNone(join_date)
       \/ (IsSome(start_date) /\ IsSome(join_date)
           /\ Unwrap(join_date) > Unwrap(start_date))
    THEN (IF IsSome(start_date)
          THEN << AnnotationPoint(Lit("Project start date"),
                        ToYMDDate(Unwrap(start_date)) \o Lit(" - project starts"),
                        Unwrap(start_date)) >>
          ELSE <<>>)
         \o
         (IF IsSome(join_date)
          THEN << AnnotationPoint(Lit("CNCF join date"),
                        ToYMDDate(Unwrap(join_date)) \o Lit(" - joined CNCF"),
                        Unwrap(join_date)) >>
          ELSE <<>>)
    ELSE <<>>

MilestoneAnnotation(date_opt, title, desc_suffix) ==
    IF IsSome(date_opt)
    THEN << AnnotationPoint(Lit(title),
                ToYMDDate(Unwrap(date_opt)) \o Lit(" - ") \o Lit(desc_suffix),
                Unwrap(date_opt)) >>
    ELSE <<>>

\* the batch process_annotations builds before it writes: d is the array of
\* the five dates (start, join, incubating, graduated, archived)
Batch(head, qr) == [status |-> qr.status, pts |-> head \o qr.pts, reads |-> qr.reads]

SortedPoints(sorted_annotations, d, nows, overflow_checks) ==
    Batch([i \in 1..Len(sorted_annotations) |->
                AnnotationPoint(SanitizeUTF8(sorted_annotations[i].name),
                                SanitizeUTF8(sorted_annotations[i].description),
                                sorted_annotations[i].date)]
            \o StartJoinPoints(d[1], d[2])
            \o MilestoneAnnotation(d[3], "Moved to incubating state",
                                   "project moved to incubating state")
            \o MilestoneAnnotation(d[4], "Graduated", "project graduated")
            \o MilestoneAnnotation(d[5], "Archived", "project was archived"),
          CreateQuickRanges(sorted_annotations, d[1], d[2], d[3], d[4], nows,
                            overflow_checks))

BuildPoints(anns, d, nows, overflow_checks) ==
    SortedPoints(SortByDate(anns), d, nows, overflow_checks)

----------------------------------------------------------------------------
(* The database *)

\* table_points.chunks(1000)
ChunkSize == 1000

Null == <<"<NULL>">>

\* format!("'{}'", value.replace('\'', "''"))
RECURSIVE DoubleQuotes(_)
DoubleQuotes(s) ==
    IF Len(s) = 0 THEN <<>>
    ELSE (IF s[1] = "'" THEN <<"'", "'">> ELSE <<s[1]>>) \o DoubleQuotes(Tail(s))

SqlString(s) == <<"'">> \o DoubleQuotes(s) \o <<"'">>

\* the value the executor reads from a string literal
RECURSIVE UndoubleQuotes(_)
UndoubleQuotes(s) ==
    IF Len(s) = 0 THEN <<>>
    ELSE IF Len(s) >= 2 /\ s[1] = "'" /\ s[2] = "'"
        THEN <<"'">> \o UndoubleQuotes(SubSeq(s, 3, Len(s)))
    ELSE <<s[1]>> \o UndoubleQuotes(Tail(s))

SqlValue(lit) ==
    IF lit = <<"NULL">> THEN Null ELSE UndoubleQuotes(SubSeq(lit, 2, Len(lit) - 1))

\* point.time.format("%Y-%m-%d %H:%M:%S%.3f") of a whole second
TimeLiteral(t) == <<"'">> \o ToYMDHMSDate(t) \o <<".", "0", "0", "0">> \o <<"'">>

Keys(opt) == IF IsSome(opt) THEN DOMAIN Unwrap(opt) ELSE {}

\* the VALUES clause of a point under the columns of the sample point
ValuesClause(point, sample) ==
    [c \in {"time", "time_hour"} \cup Keys(sample.tags) \cup Keys(sample.fields) |->
        IF c = "time" THEN TimeLiteral(point.time)
        ELSE IF c = "time_hour" THEN TimeLiteral(HourStart(point.time))
        ELSE IF c \in Keys(sample.tags)
            THEN (IF c \in Keys(point.tags)
                  THEN SqlString(Unwrap(point.tags)[c]) ELSE SqlString(<<>>))
        ELSE (IF c \in Keys(point.fields)
              THEN SqlString(Unwrap(point.fields)[c]) ELSE <<"NULL">>)]

\* the rows an INSERT statement of insert_ts_points_batch stores
RowOf(clause) == [c \in DOMAIN clause |-> SqlValue(clause[c])]

StoredRows(points) ==
    [i \in 1..Len(points) |-> RowOf(ValuesClause(points[i], points[1]))]

\* the bag of the elements of a sequence
SeqToBag(s) ==
    [r \in {s[i] : i \in 1..Len(s)} |-> Cardinality({i \in 1..Len(s) : s[i] = r})]

\* format!("t{}", point.name)
TableName(name) == "t" \o name

\* Chunks that puts all the points in one chunk
Unchunked(s, n) == IF Len(s) = 0 THEN <<>> ELSE <<s>>

RECURSIVE Chunks(_, _)
Chunks(s, n) ==
    IF Len(s) = 0 THEN <<>>
    ELSE IF Len(s) <= n THEN <<s>>
    ELSE <<SubSeq(s, 1, n)>> \o Chunks(SubSeq(s, n + 1, Len(s)), n)

PointsOf(points, name) == SelectSeq(points, LAMBDA p : p.name = name)

\* the INSERT statements of one table, in order
TableStatements(points, name) ==
    LET chunks == Chunks(PointsOf(points, name), ChunkSize)
    IN  [i \in 1..Len(chunks) |-> [table |-> TableName(name), points |-> chunks[i]]]

\* the INSERT statements of write_ts_points_to_db: the tables come in the
\* iteration order of a HashMap, which is any order
RECURSIVE StatementOrders(_, _)
StatementOrders(points, names) ==
    IF names = {} THEN {<<>>}
    ELSE UNION {{TableStatements(points, n) \o rest :
                    rest \in StatementOrders(points, names \ {n})} : n \in names}

Statements(points) ==
    StatementOrders(points, {points[i].name : i \in 1..Len(points)})

\* the effect of an INSERT statement on the tables of a database, None when
\* the executor rejects it: the table is absent, or the table has a unique
\* key on time and the statement would store two rows of one time
InsertRows(tables, unique, table, rows) ==
    IF table \notin DOMAIN tables THEN None
    ELSE IF unique
            /\ \/ \E i, j \in 1..Len(rows) : i < j /\ rows[i].time = rows[j].time
               \/ \E i \in 1..Len(rows) :
                    \E r \in BagToSet(tables[table]) : r.time = rows[i].time
        THEN None
    ELSE Some([tables EXCEPT ![table] = @ (+) SeqToBag(rows)])

Insert(tables, unique, stmt) ==
    InsertRows(tables, unique, stmt.table, StoredRows(stmt.points))

\* WHERE "quick_ranges_suffix" LIKE '%_n': in LIKE, _ matches any one character
LikeAnyN(s) == Len(s) >= 2 /\ s[Len(s)] = "n"

\* DeleteVolatile with a DELETE that has no WHERE clause
DeleteEverything(tables) == [tables EXCEPT !["tquick_ranges"] = EmptyBag]

DeleteVolatile(tables) ==
    LET old == tables["tquick_ranges"]
        keep == {r \in BagToSet(old) : ~LikeAnyN(r.quick_ranges_suffix)}
    IN  [tables EXCEPT !["tquick_ranges"] = [r \in keep |-> old[r]]]

----------------------------------------------------------------------------
(* The run of make_annotations *)

Terminal == {"done", "exit", "err", "panic"}

NoDates == <<None, None, None, None, None>>

\* make_annotations with the outcome r of get_annotations
RealAnnotations(p, r) ==
    IF r.status = "ok"
    THEN [pc |-> "process", annotations |-> r.annotations,
          dates |-> <<p.start_date, p.join_date, p.incubating_date,
                      p.graduated_date, p.archived_date>>]
    ELSE [pc |-> r.status, annotations |-> <<>>, dates |-> NoDates]

\* MakeAnnotations that hands the start and join dates on also for a project
\* without a tag source
MakeAnnotationsWithDates(p, g) ==
    IF p.main_repo # <<>>
    THEN RealAnnotations(p, GetAnnotations(p.main_repo, p.annotation_regexp, g))
    ELSE IF IsSome(p.start_date)
        THEN [pc |-> "process",
              annotations |->
                IF IsSome(p.join_date)
                THEN GetFakeAnnotations(Unwrap(p.start_date), Unwrap(p.join_date))
                ELSE << Annotation(Lit("Project start"),
                            ToYMDDate(Unwrap(p.start_date)) \o Lit(" - project starts"),
                            Unwrap(p.start_date)) >>,
              dates |-> <<p.start_date, p.join_date, p.incubating_date,
                          p.graduated_date, p.archived_date>>]
    ELSE [pc |-> "done", annotations |-> <<>>, dates |-> NoDates]

\* what make_annotations hands to process_annotations; pc is "process" when
\* it calls it
MakeAnnotations(p, g) ==
    IF p.main_repo # <<>>
    THEN RealAnnotations(p, GetAnnotations(p.main_repo, p.annotation_regexp, g))
    ELSE IF IsSome(p.start_date)
        THEN [pc |-> "process",
              annotations |->
                IF IsSome(p.join_date)
                THEN GetFakeAnnotations(Unwrap(p.start_date), Unwrap(p.join_date))
                ELSE << Annotation(Lit("Project start"),
                            ToYMDDate(Unwrap(p.start_date)) \o Lit(" - project starts"),
                            Unwrap(p.start_date)) >>,
              dates |-> <<None, None, p.incubating_date, p.graduated_date,
                          p.archived_date>>]
    ELSE [pc |-> "done", annotations |-> <<>>, dates |-> NoDates]

\* the instants the clock can show
ClockValues == {1497571199, 1497571201}

\* create_quick_ranges reads the clock at most three times
MaxReads == 3

\* the readings of a clock that shows c: the clock never goes back
Nows(c) ==
    {n \in [1..MaxReads -> ClockValues] :
        c <= n[1] /\ \A k \in 1..(MaxReads - 1) : n[k] <= n[k + 1]}

\* the annotations of the batch, as written to the shared database
SharedPoints(points, c) ==
    LET anots == PointsOf(points, "annotations")
    IN  [i \in 1..Len(anots) |->
            [anots[i] EXCEPT
                !.name = "annotations_shared",
                !.period = IF IsSome(anots[i].fields) THEN c.project ELSE @,
                !.fields = IF IsSome(@)
                           THEN Some([k \in DOMAIN Unwrap(@) \cup {"repo"} |->
                                        IF k = "repo" THEN c.project_main_repo
                                        ELSE Unwrap(@)[k]])
                           ELSE @]]

InsertNext(before, unique, stmt) ==
    IF IsNone(before) THEN None ELSE Insert(Unwrap(before), unique, stmt)

\* the tables after the first k statements of stmts
RECURSIVE InsertAll(_, _, _, _)
InsertAll(tables, unique, stmts, k) ==
    IF k = 0 THEN Some(tables)
    ELSE InsertNext(InsertAll(tables, unique, stmts, k - 1), unique, stmts[k])

MaxFaults == 1

\* a connection or a statement can fail for a reason outside the program
CanFail == faults < MaxFaults

GetAnnotationsStep ==
    /\ pc = "start"
    /\ \E r \in {MakeAnnotations(proj, git)} :
            /\ pc' = r.pc
            /\ annotations' = r.annotations
            /\ dates' = r.dates
    /\ ctx' = [ctx EXCEPT !.shared_db = proj.shared_db,
                          !.project_main_repo = proj.main_repo]
    /\ UNCHANGED <<calc, build, proj, git, clock, pts, todo, db, shared, run, hist, nowlog, faults>>

ProcessAnnotations ==
    /\ pc = "process"
    /\ \/ /\ ~ctx.skip_tsdb
          /\ CanFail
          /\ faults' = faults + 1
          /\ pc' = "err"
          /\ UNCHANGED <<clock, pts, todo, nowlog>>
       \/ \E nows \in Nows(clock) :
            \E b \in {BuildPoints(annotations, dates, nows, build.overflow_checks)} :
                /\ UNCHANGED faults
                /\ \A k \in (b.reads + 1)..MaxReads : nows[k] = nows[MaxReads]
                /\ b.reads = 0 => nows[MaxReads] = clock
                /\ nowlog' = SubSeq(nows, 1, b.reads)
                /\ clock' = nows[MaxReads]
                /\ pts' = b.pts
                /\ IF b.status # "ok" THEN pc' = "panic" /\ todo' = <<>>
                   ELSE IF ctx.skip_tsdb THEN pc' = "done" /\ todo' = <<>>
                   ELSE pc' = "delete" /\ todo' \in Statements(b.pts)
    /\ UNCHANGED <<calc, build, proj, git, ctx, annotations, dates, db, shared, run, hist>>

AfterWrite == IF ~ctx.skip_shared_db /\ ctx.shared_db # <<>> THEN "shared" ELSE "done"

DeleteStep ==
    /\ pc = "delete"
    /\ \/ CanFail /\ faults' = faults + 1 /\ pc' = "err" /\ UNCHANGED db
       \/ /\ "tquick_ranges" \in DOMAIN db.tables
          /\ db' = [db EXCEPT !.tables = DeleteVolatile(@)]
          /\ pc' = "insert"
          /\ UNCHANGED faults
       \/ /\ "tquick_ranges" \in DOMAIN db.tables
          /\ CanFail
          /\ faults' = faults + 1
          /\ pc' = "insert"
          /\ UNCHANGED db
       \/ /\ "tquick_ranges" \notin DOMAIN db.tables
          /\ pc' = "insert"
          /\ UNCHANGED <<db, faults>>
    /\ UNCHANGED <<calc, build, proj, git, ctx, clock, annotations, dates, pts, todo,
                   shared, run, hist, nowlog>>

\* InsertStep of a writer that goes on with the next statement after a
\* rejected one
InsertStepContinuing ==
    /\ pc = "insert"
    /\ \/ \E after \in {Insert(db.tables, db.unique, Head(todo))} :
            /\ db' = IF IsSome(after) THEN [db EXCEPT !.tables = Unwrap(after)] ELSE db
            /\ todo' = Tail(todo)
            /\ pc' = IF Len(todo) = 1 THEN AfterWrite ELSE "insert"
            /\ UNCHANGED faults
       \/ /\ CanFail
          /\ faults' = faults + 1
          /\ pc' = "err"
          /\ UNCHANGED <<db, todo>>
    /\ UNCHANGED <<calc, build, proj, git, ctx, clock, annotations, dates, pts, shared,
                   run, hist, nowlog>>

InsertStep ==
    /\ pc = "insert"
    /\ \/ \E after \in {Insert(db.tables, db.unique, Head(todo))} :
            \/ /\ IsSome(after)
               /\ db' = [db EXCEPT !.tables = Unwrap(after)]
               /\ todo' = Tail(todo)
               /\ pc' = IF Len(todo) = 1 THEN AfterWrite ELSE "insert"
               /\ UNCHANGED faults
            \/ /\ IsNone(after)
               /\ pc' = "err"
               /\ UNCHANGED <<db, todo, faults>>
       \/ /\ CanFail
          /\ faults' = faults + 1
          /\ pc' = "err"
          /\ UNCHANGED <<db, todo>>
    /\ UNCHANGED <<calc, build, proj, git, ctx, clock, annotations, dates, pts, shared,
                   run, hist, nowlog>>

SharedStep ==
    /\ pc = "shared"
    /\ \/ CanFail /\ faults' = faults + 1 /\ pc' = "err" /\ UNCHANGED shared
       \/ \E stmts \in Statements(SharedPoints(pts, ctx)) :
            \E k \in 0..Len(stmts) :
                \E after \in {InsertAll(shared.tables, shared.unique, stmts, k)} :
                    /\ IsSome(after)
                    /\ shared' = [shared EXCEPT !.tables = Unwrap(after)]
                    /\ IF k = Len(stmts)
                       THEN pc' = "done" /\ UNCHANGED faults
                       ELSE /\ pc' = "err"
                            /\ \/ /\ IsNone(Insert(Unwrap(after), shared.unique, stmts[k + 1]))
                                  /\ UNCHANGED faults
                               \/ CanFail /\ faults' = faults + 1
    /\ UNCHANGED <<calc, build, proj, git, ctx, clock, annotations, dates, pts, todo, db,
                   run, hist, nowlog>>

MaxRuns == 2

\* the external scheduler starts the next run once the last one has ended
NextRun ==
    /\ pc \in Terminal
    /\ run < MaxRuns
    /\ run' = run + 1
    /\ hist' = Append(hist, [pc |-> pc, tables |-> db.tables, nowlog |-> nowlog])
    /\ nowlog' = <<>>
    /\ pc' = "start"
    /\ annotations' = <<>>
    /\ dates' = NoDates
    /\ pts' = <<>>
    /\ todo' = <<>>
    /\ clock' \in {c \in ClockValues : c >= clock}
    /\ UNCHANGED <<calc, build, proj, git, ctx, db, shared, faults>>

----------------------------------------------------------------------------
(* calc_metric *)

\* an f64 that is a multiple of 1/4 is held as its number of quarters; the
\* values and scales used here and their products are such numbers
Mul(a, b) == (a * b) \div 4

\* opt_val.parse().unwrap_or(1.0)
ProjectScale(opt_val) ==
    IF opt_val = Lit("2.0") THEN 8
    ELSE IF opt_val = Lit("0.5") THEN 2
    ELSE 4

\* the CalcMetricConfig main starts with
DefaultConfig ==
    [hist |-> FALSE, multivalue |-> FALSE, escape_value_name |-> FALSE,
     skip_escape_series_name |-> FALSE, annotations_ranges |-> FALSE,
     skip_past |-> FALSE, desc |-> <<>>, merge_series |-> <<>>,
     project_scale |-> 4, custom_data |-> FALSE, drop_tables |-> <<>>]

\* the match on opt_name
SetOption(cfg, opt_name, opt_val) ==
    IF opt_name = Lit("hist") THEN [cfg EXCEPT !.hist = TRUE]
    ELSE IF opt_name = Lit("multivalue") THEN [cfg EXCEPT !.multivalue = TRUE]
    ELSE IF opt_name = Lit("escape_value_name") THEN [cfg EXCEPT !.escape_value_name = TRUE]
    ELSE IF opt_name = Lit("skip_escape_series_name")
        THEN [cfg EXCEPT !.skip_escape_series_name = TRUE]
    ELSE IF opt_name = Lit("annotations_ranges") THEN [cfg EXCEPT !.annotations_ranges = TRUE]
    ELSE IF opt_name = Lit("skip_past") THEN [cfg EXCEPT !.skip_past = TRUE]
    ELSE IF opt_name = Lit("desc") THEN [cfg EXCEPT !.desc = opt_val]
    ELSE IF opt_name = Lit("merge_series") THEN [cfg EXCEPT !.merge_series = opt_val]
    ELSE IF opt_name = Lit("project_scale")
        THEN [cfg EXCEPT !.project_scale = ProjectScale(opt_val)]
    ELSE IF opt_name = Lit("custom_data") THEN [cfg EXCEPT !.custom_data = TRUE]
    ELSE IF opt_name = Lit("drop") THEN [cfg EXCEPT !.drop_tables = Split(opt_val, ";")]
    ELSE cfg

\* the loop over opts.split(','): opt.split(':') gives the name and, when
\* there is a second part, the value
RECURSIVE ParseOptions(_, _)
ParseOptions(cfg, opts) ==
    IF opts = <<>> THEN cfg
    ELSE LET parts == Split(Head(opts), ":")
         IN  ParseOptions(SetOption(cfg, parts[1], IF Len(parts) > 1 THEN parts[2] ELSE <<>>),
                          Tail(opts))

\* str::replace of a placeholder, which is one chunk of the template
RECURSIVE Replace(_, _, _)
Replace(sql, from, to) ==
    IF sql = <<>> THEN <<>>
    ELSE (IF Head(sql) = from THEN to ELSE <<Head(sql)>>) \o Replace(Tail(sql), from, to)

\* the SQL text calculate_histogram_metric executes; a date is put in as
\* format!("'{}'", dt.format("%Y-%m-%d %H:%M:%S"))
HistogramSql(sql_content, from_dt, to_dt, period) ==
    Replace(Replace(Replace(sql_content, "{{from}}", <<"'">> \o ToYMDHMSDate(from_dt) \o <<"'">>),
                    "{{to}}", <<"'">> \o ToYMDHMSDate(to_dt) \o <<"'">>),
            "{{period}}", period)

\* the SQL text calculate_time_series_metric executes
TimeSeriesSql(sql_content, from_dt, to_dt, period) ==
    Replace(HistogramSql(sql_content, from_dt, to_dt, period), "{{exclude_bots}}",
            Lit("and (lower(actor_login) not similar to '%bot%|%\\[bot\\]%')"))

\* A cell of a row is [kind, val]: row.try_get::<f64> succeeds on kind "f64"
\* and row.try_get::<String> on kind "text".  The outcome of a row is
\* [status, out]: out are the lines it printed, [name, value] for
\* "Series: {name}, Value: {value}" and [name, bucket, value] for
\* "Histogram {name}: {bucket} = {value}"; status is "err" when `?` returned.

\* ScalarRow that prints the value as it was read
ScalarRowUnscaled(row, series_name, period, cfg) ==
    IF row[1].kind # "f64" THEN [status |-> "err", out |-> <<>>]
    ELSE [status |-> "ok",
          out |-> << [name |-> IF cfg.annotations_ranges
                               THEN series_name \o <<"_">> \o period \o <<"_">> \o Lit("range")
                               ELSE series_name \o <<"_">> \o period,
                      value |-> row[1].val] >>]

\* the branch of a row of one column
ScalarRow(row, series_name, period, cfg) ==
    IF row[1].kind # "f64" THEN [status |-> "err", out |-> <<>>]
    ELSE [status |-> "ok",
          out |-> << [name |-> IF cfg.annotations_ranges
                               THEN series_name \o <<"_">> \o period \o <<"_">> \o Lit("range")
                               ELSE series_name \o <<"_">> \o period,
                      value |-> Mul(row[1].val, cfg.project_scale)] >>]

\* the loop over the names of a wide row: the first n names have a column
\* (i + 1 < column_count), bad are those whose column is not an f64
WideRow(row, names, period, cfg) ==
    LET n == IF Len(names) < Len(row) - 1 THEN Len(names) ELSE Len(row) - 1
        bad == {i \in 1..n : row[i + 1].kind # "f64"}
        read == IF bad = {} THEN n ELSE (CHOOSE i \in bad : \A j \in bad : i <= j) - 1
    IN  [status |-> IF bad = {} THEN "ok" ELSE "err",
         out |-> [i \in 1..read |->
                    [name |-> names[i] \o <<"_">> \o period \o <<"_">> \o IntToStr(i - 1),
                     value |-> Mul(row[i + 1].val, cfg.project_scale)]]]

\* the body of the loop of calculate_time_series_metric
SeriesRow(row, series_name, period, cfg) ==
    IF Len(row) = 1 THEN ScalarRow(row, series_name, period, cfg)
    ELSE IF Len(row) >= 2
        THEN (IF row[1].kind # "text" THEN [status |-> "err", out |-> <<>>]
              ELSE IF \E i \in 1..Len(row[1].val) : row[1].val[i] = ","
                  THEN WideRow(row, Split(row[1].val, ","), period, cfg)
              ELSE IF row[2].kind # "f64" THEN [status |-> "err", out |-> <<>>]
              ELSE [status |-> "ok",
                    out |-> << [name |-> series_name \o <<"_">> \o row[1].val
                                            \o <<"_">> \o period,
                                value |-> Mul(row[2].val, cfg.project_scale)] >>])
    ELSE [status |-> "ok", out |-> <<>>]

\* HistogramRow that multiplies the value by the scale
HistogramRowScaled(row, series_name, cfg) ==
    IF Len(row) = 2
    THEN (IF row[1].kind = "text" /\ row[2].kind = "f64"
          THEN [status |-> "ok",
                out |-> << [name |-> series_name, bucket |-> row[1].val,
                            value |-> Mul(row[2].val, cfg.project_scale)] >>]
          ELSE [status |-> "err", out |-> <<>>])
    ELSE IF Len(row) >= 3
        THEN (IF row[1].kind = "text" /\ row[2].kind = "text" /\ row[3].kind = "f64"
              THEN [status |-> "ok",
                    out |-> << [name |-> series_name \o <<"_">> \o row[1].val,
                                bucket |-> row[2].val,
                                value |-> Mul(row[3].val, cfg.project_scale)] >>]
              ELSE [status |-> "err", out |-> <<>>])
    ELSE [status |-> "ok", out |-> <<>>]

\* the body of the loop of calculate_histogram_metric
HistogramRow(row, series_name, cfg) ==
    IF Len(row) = 2
    THEN (IF row[1].kind = "text" /\ row[2].kind = "f64"
          THEN [status |-> "ok",
                out |-> << [name |-> series_name, bucket |-> row[1].val,
                            value |-> row[2].val] >>]
          ELSE [status |-> "err", out |-> <<>>])
    ELSE IF Len(row) >= 3
        THEN (IF row[1].kind = "text" /\ row[2].kind = "text" /\ row[3].kind = "f64"
              THEN [status |-> "ok",
                    out |-> << [name |-> series_name \o <<"_">> \o row[1].val,
                                bucket |-> row[2].val, value |-> row[3].val] >>]
              ELSE [status |-> "err", out |-> <<>>])
    ELSE [status |-> "ok", out |-> <<>>]

\* the loop over the rows: `?` ends it at the first row that cannot be read
RECURSIVE ProcessRows(_, _, _, _, _)
ProcessRows(rows, series_name, period, cfg, acc) ==
    IF rows = <<>> THEN [status |-> "ok", out |-> acc]
    ELSE LET r == IF cfg.hist THEN HistogramRow(Head(rows), series_name, cfg)
                  ELSE SeriesRow(Head(rows), series_name, period, cfg)
         IN  IF r.status = "ok"
             THEN ProcessRows(Tail(rows), series_name, period, cfg, acc \o r.out)
             ELSE [status |-> "err", out |-> acc \o r.out]

\* matches!(period, "h" | "d" | "w" | "m" | "q" | "y")
Periods == {Lit("h"), Lit("d"), Lit("w"), Lit("m"), Lit("q"), Lit("y")}

\* no invocation of calc_metric
CalcIdle == [pc |-> "idle"]

\* main up to the call of the calculation: the arguments, the options, the
\* connection and the SQL file, the dates and the period
CalcMain ==
    /\ calc.pc = "main"
    /\ \/ /\ calc.args.count < 6
          /\ calc' = [calc EXCEPT !.pc = "exit"]
       \/ /\ calc.args.count >= 6
          /\ \E cfg \in {ParseOptions(DefaultConfig,
                                      IF calc.args.count > 6
                                      THEN Split(calc.args.options, ",") ELSE <<>>)} :
                \/ calc' = [calc EXCEPT !.pc = "err", !.cfg = cfg]
                \/ /\ IsSome(calc.args.from) /\ IsSome(calc.args.to)
                   /\ calc.args.period \in Periods
                   /\ calc' = [calc EXCEPT !.pc = "query", !.cfg = cfg]
    /\ UNCHANGED annVars

\* calculate_time_series_metric or calculate_histogram_metric: the query and
\* the loop over its rows
CalcMetric ==
    /\ calc.pc = "query"
    /\ \E sql \in {IF calc.cfg.hist
                   THEN HistogramSql(calc.template, Unwrap(calc.args.from),
                                     Unwrap(calc.args.to), calc.args.period)
                   ELSE TimeSeriesSql(calc.template, Unwrap(calc.args.from),
                                      Unwrap(calc.args.to), calc.args.period)} :
            \/ calc' = [calc EXCEPT !.pc = "err", !.sql = Some(sql)]
            \/ \E r \in {ProcessRows(calc.rows, calc.args.series_name, calc.args.period,
                                     calc.cfg, <<>>)} :
                    calc' = [calc EXCEPT !.pc = IF r.status = "ok" THEN "done" ELSE "err",
                                         !.sql = Some(sql), !.out = r.out]
    /\ UNCHANGED annVars

----------------------------------------------------------------------------
(* Inputs *)

MaxTags == 3

TagName(i) == <<"v", Digits[i + 1]>>

Line(name, ts, subject) == name \o <<Sep>> \o ts \o <<Sep>> \o subject

ShortSubject == <<"f", "i", "x">>

\* timestamps of tags: before the epoch floor, in its hour, in the next
\* hour and a day later
TagTimes == {MinDate - 1, MinDate, MinDate + 1800, MinDate + Hour, MinDate + Hour + 1,
             MinDate + Day}

TsFields == {IntToStr(t) : t \in TagTimes} \cup {<<>>, <<"1", "2", "x">>}

\* tag histories of n well-formed lines
TagLines(n) ==
    {[i \in 1..n |-> Line(TagName(i), f[i], ShortSubject)] : f \in [1..n -> TsFields]}

GoodLine == Line(TagName(1), IntToStr(MinDate + Day), ShortSubject)

MalformedHistories ==
    { << TagName(1) \o <<Sep>> \o IntToStr(MinDate + Day) >>,
      << GoodLine, GoodLine \o <<Sep>> \o ShortSubject >>,
      << <<>>, <<" ", "\t">>, GoodLine >> }

\* a subject of n one-byte characters
Ascii(n) == [i \in 1..n |-> "x"]

\* subjects around the limit of the description, with characters of two and
\* three bytes at the start and across the limit, and with characters that
\* are replaced by a space
Subjects ==
    { Ascii(MaxMessage), Ascii(MaxMessage + 1),
      <<"a", "\t", "b", "\r", "c">>,
      <<"<e-acute>">> \o Ascii(MaxMessage - 1),
      <<"<euro>">> \o Ascii(MaxMessage),
      Ascii(MaxMessage - 1) \o <<"<e-acute>", "y">> }

\* histories of one tag a day after the epoch floor
SubjectHistories == { << Line(TagName(1), IntToStr(MinDate + Day), s) >> : s \in Subjects }

\* a tag at the epoch floor and a tag a day later with a long subject
ReleaseTags ==
    << Line(<<"v", "1", ".", "0">>, IntToStr(MinDate),
            <<"I", "n", "i", "t", "i", "a", "l", " ", "r", "e", "l", "e", "a", "s", "e">>),
       Line(<<"v", "1", ".", "1">>, IntToStr(MinDate + Day), Ascii(MaxMessage + 5)) >>

NoRegexp == [text |-> <<>>, valid |-> TRUE, matches |-> {}]

\* a pattern that does not compile
InvalidRegexp == [text |-> Lit("v("), valid |-> FALSE, matches |-> {}]

Regexps ==
    { NoRegexp,
      [text |-> Lit("^v[13]$"), valid |-> TRUE, matches |-> {TagName(1), TagName(3)}],
      InvalidRegexp }

MainRepo == <<"o", "/", "r">>

\* 2015-01-01, 2016-01-01, 2017-01-01 and 2018-01-01
DateValues == {1420070400, 1451606400, 1483228800, 1514764800}

OptDates == {None} \cup {Some(d) : d \in DateValues}

Project(main_repo, re, start, join, incubating, graduated, archived, shared_db) ==
    [main_repo |-> main_repo, annotation_regexp |-> re, start_date |-> start,
     join_date |-> join, incubating_date |-> incubating,
     graduated_date |-> graduated, archived_date |-> archived,
     shared_db |-> shared_db]

Context(skip_tsdb) ==
    [skip_tsdb |-> skip_tsdb, skip_shared_db |-> FALSE, shared_db |-> <<>>,
     project |-> Lit("proj"), project_main_repo |-> <<>>]

EmptyTables == [tannotations |-> EmptyBag, tquick_ranges |-> EmptyBag]

InitRest ==
    /\ calc = CalcIdle
    /\ run = 1
    /\ hist = <<>>
    /\ pts = <<>>
    /\ todo = <<>>
    /\ nowlog = <<>>
    /\ faults = 0
    /\ shared \in [unique : {FALSE}, tables : {[tannotations_shared |-> EmptyBag]}]

\* start and join dates of a project without a tag source: absent, a day
\* before the epoch floor, or one of DateValues
MilestoneDates == OptDates \cup {Some(MinDate - Day)}

\* projects without a tag source
MilestoneProjects ==
    {Project(<<>>, NoRegexp, s, j, None, None, None, <<>>) :
        s \in MilestoneDates, j \in MilestoneDates}

\* make_annotations up to its call of process_annotations: get_annotations
\* on tag histories of up to MaxTags lines, and the projects without a tag
\* source
InitAnn ==
    /\ pc = "start"
    /\ build = [overflow_checks |-> FALSE]
    /\ \/ /\ git \in [ok : {TRUE}, stdout : MalformedHistories \cup SubjectHistories
                                          \cup {ReleaseTags}
                                          \cup UNION {TagLines(n) : n \in 0..MaxTags}]
                      \cup [ok : {FALSE}, stdout : {<<>>}]
          /\ proj \in {Project(MainRepo, re, None, None, None, None, None, <<>>) :
                          re \in Regexps}
       \/ /\ git = [ok |-> TRUE, stdout |-> <<>>]
          /\ proj \in MilestoneProjects
    /\ ctx = Context(TRUE)
    /\ clock \in ClockValues
    /\ annotations = <<>>
    /\ dates = NoDates
    /\ db = [unique |-> FALSE, tables |-> EmptyTables]
    /\ InitRest

SpecAnn == InitAnn /\ [][GetAnnotationsStep]_vars

\* process_annotations without a database, for every combination of the
\* start, join, incubating and graduated dates
QRHistories ==
    { <<>>,
      << Line(TagName(1), IntToStr(MinDate + Day), ShortSubject) >>,
      << Line(TagName(1), IntToStr(MinDate + Day), ShortSubject),
         Line(TagName(2), IntToStr(MinDate + Hour), ShortSubject) >> }

\* projects without a tag source: a start date, no join date or one before
\* or after the start date, and every combination of the other dates
DatedMilestoneProjects ==
    {Project(<<>>, NoRegexp, Some(1451606400), j, i, g, a, <<>>) :
        j \in {None, Some(1420070400), Some(1483228800)},
        i \in OptDates, g \in OptDates, a \in {None, Some(1514764800)}}

InitQR ==
    /\ build \in [overflow_checks : BOOLEAN]
    /\ \/ /\ git \in [ok : {TRUE}, stdout : QRHistories]
          /\ proj \in {Project(MainRepo, NoRegexp, s, j, i, g, None, <<>>) :
                          s \in OptDates, j \in OptDates, i \in OptDates, g \in OptDates}
       \/ /\ git = [ok |-> TRUE, stdout |-> <<>>]
          /\ proj \in DatedMilestoneProjects
    /\ ctx = [Context(TRUE) EXCEPT !.project_main_repo = proj.main_repo]
    /\ clock \in ClockValues
    /\ \E r \in {MakeAnnotations(proj, git)} :
            /\ pc = r.pc
            /\ annotations = r.annotations
            /\ dates = r.dates
    /\ db = [unique |-> FALSE, tables |-> EmptyTables]
    /\ InitRest

SpecQR == InitQR /\ [][ProcessAnnotations]_vars

\* runs of make_annotations against a database, one after the other with
\* the same project configuration and the same tag history
RunProjects ==
    { Project(MainRepo, NoRegexp, Some(1420070400), Some(1451606400), Some(1483228800),
              None, None, Lit("allprj")),
      Project(MainRepo, NoRegexp, None, None, None, None, None, <<>>),
      Project(<<>>, NoRegexp, Some(1420070400), Some(1451606400), None, None, None, <<>>),
      Project(MainRepo, InvalidRegexp, Some(1420070400), Some(1451606400), None, None,
              None, <<>>) }

\* the tag histories of the runs: those of QRHistories and one whose second
\* line has four fields
RunHistories == QRHistories \cup { << GoodLine, GoodLine \o <<Sep>> \o ShortSubject >> }

InitRun ==
    /\ pc = "start"
    /\ build \in [overflow_checks : BOOLEAN]
    /\ git \in [ok : {TRUE}, stdout : RunHistories]
    /\ proj \in RunProjects
    /\ ctx \in {Context(skip) : skip \in BOOLEAN}
    /\ clock \in ClockValues
    /\ annotations = <<>>
    /\ dates = NoDates
    /\ db \in [unique : BOOLEAN,
                tables : {EmptyTables, [tannotations |-> EmptyBag]}]
    /\ InitRest

Next ==
    \/ GetAnnotationsStep
    \/ ProcessAnnotations
    \/ DeleteStep
    \/ InsertStep
    \/ SharedStep
    \/ NextRun

Spec == InitRun /\ [][Next]_vars

\* the writer on batches of up to MaxBatch points: points of the two series
\* with all the keys of their series and with some of them missing
MaxBatch == 3

WritePoints ==
    { AnnotationPoint(<<"i", "t", "'", "s">>, Lit("d"), MinDate + 1800),
      TSPoint("annotations", <<>>, None, Some([title |-> Lit("x")]), MinDate + Hour, FALSE),
      QuickRangePoint(<<"d">>, Lit("Last day"), PeriodData(<<"d">>, Lit("1 day")), MinDate),
      TSPoint("quick_ranges", <<>>, Some([quick_ranges_suffix |-> SfxCN]), None,
              MinDate + Hour, FALSE) }

WriteBatches == UNION {[1..n -> WritePoints] : n \in 1..MaxBatch}

\* a batch of one point more than a statement takes
BigBatch ==
    [i \in 1..(ChunkSize + 1) |->
        QuickRangePoint(<<"d">>, Lit("Last day"), PeriodData(<<"d">>, Lit("1 day")), MinDate)]

InitWrite ==
    /\ pc = "insert"
    /\ build = [overflow_checks |-> FALSE]
    /\ git = [ok |-> TRUE, stdout |-> <<>>]
    /\ proj = Project(MainRepo, NoRegexp, None, None, None, None, None, <<>>)
    /\ ctx \in {[Context(FALSE) EXCEPT !.shared_db = sdb, !.project_main_repo = MainRepo] :
                    sdb \in {<<>>, Lit("allprj")}}
    /\ clock = 1497571199
    /\ annotations = <<>>
    /\ dates = NoDates
    /\ pts \in WriteBatches \cup {BigBatch}
    /\ todo \in Statements(pts)
    /\ db \in [unique : BOOLEAN, tables : {EmptyTables, [tannotations |-> EmptyBag]}]
    /\ shared \in [unique : {FALSE}, tables : {[tannotations_shared |-> EmptyBag]}]
    /\ run = 1
    /\ hist = <<>>
    /\ nowlog = <<>>
    /\ faults = 0
    /\ calc = CalcIdle

NextWrite == InsertStep \/ SharedStep

SpecWrite == InitWrite /\ [][NextWrite]_vars

----------------------------------------------------------------------------
(* calc_metric started on a result set *)

MaxRows == 2

F64(v) == [kind |-> "f64", val |-> v]
Text(key) == [kind |-> "text", val |-> key]

\* the options argument; ",", ":" and ";" are chunks of their own
CalcOptions ==
    { <<>>,
      <<"hist">>,
      <<"project_scale", ":", "2.0">>,
      <<"project_scale", ":", "0.5">>,
      <<"project_scale", ":", "abc">>,
      <<"annotations_ranges">>,
      <<"annotations_ranges", ",", "project_scale", ":", "2.0">>,
      <<"hist", ",", "project_scale", ":", "2.0">>,
      <<"drop", ":", "tprs", ";", "tother">>,
      <<"hist", ",", "drop", ":", "tprs">>,
      <<"multivalue", ",", "escape_value_name", ",", "skip_escape_series_name", ",",
        "skip_past", ",", "desc", ":", "x", ",", "merge_series", ":", "m", ",",
        "custom_data", ",", "unknown">> }

\* SQL files
CalcTemplates ==
    { <<"select count(*) from prs where created_at >= ", "{{from}}",
        " and created_at < ", "{{to}}", " ", "{{exclude_bots}}", " -- ", "{{period}}">>,
      <<"select 1">>,
      <<"select ", "{{period}}", ", ", "{{period}}", " ", "{{exclude_bots}}", " ",
        "{{exclude_bots}}">>,
      <<"{{to}}", "{{from}}", "{{to}}">> }

\* rows of a result: values are quarters (4 is 1.0, 14 is 3.5, 28 is 7.0)
CalcRows ==
    { <<F64(14)>>,
      <<F64(0)>>,
      <<Text(Lit("n/a"))>>,
      <<Text(Lit("open")), F64(14)>>,
      <<Text(<<"alice", ",", "bob">>), F64(14), F64(28)>>,
      <<Text(<<"a", ",", "b">>), F64(4), F64(8), F64(12)>>,
      <<Text(<<"a", ",", "b", ",", "c">>), F64(4)>>,
      <<Text(<<"a", ",", "b">>), F64(4), Text(Lit("x"))>>,
      <<Text(Lit("open")), Text(Lit("0-1h")), F64(14)>>,
      <<Text(Lit("0-1h")), Text(Lit("x"))>>,
      <<Text(Lit("open")), Text(Lit("0-1h")), F64(4), F64(8)>>,
      <<F64(4), F64(8)>> }

\* calc_metric at the start of main. args is the command line: count is
\* args.len(), from and to are what parse_date makes of args[3] and args[4];
\* rows is what the database answers; tables are the destination tables, with
\* the number of rows an earlier run left in each
CalcStart(count, from, period, options, template, rows, tprs) ==
    [pc |-> "main",
     args |-> [count |-> count, series_name |-> Lit("prs"), from |-> from,
               to |-> Some(1483228800), period |-> period, options |-> options],
     template |-> template, rows |-> rows, tables |-> [tprs |-> tprs, tother |-> 1],
     cfg |-> DefaultConfig, sql |-> None, out |-> <<>>]

InitCalc ==
    /\ pc = "done"
    /\ build = [overflow_checks |-> FALSE]
    /\ git = [ok |-> TRUE, stdout |-> <<>>]
    /\ proj = Project(MainRepo, NoRegexp, None, None, None, None, None, <<>>)
    /\ ctx = Context(FALSE)
    /\ clock = 1497571199
    /\ annotations = <<>>
    /\ dates = NoDates
    /\ pts = <<>>
    /\ todo = <<>>
    /\ db = [unique |-> FALSE, tables |-> EmptyTables]
    /\ shared = [unique |-> FALSE, tables |-> [tannotations_shared |-> EmptyBag]]
    /\ run = 1
    /\ hist = <<>>
    /\ nowlog = <<>>
    /\ faults = 0
    /\ \/ \E count \in {5, 6, 7}, from \in {None, Some(1451606400)},
             period \in {Lit("d"), Lit("x")}, options \in CalcOptions,
             template \in CalcTemplates, tprs \in {0, 2} :
                calc = CalcStart(count, from, period, options, template,
                                 << <<F64(14)>> >>, tprs)
       \/ \E period \in {Lit("d"), Lit("w")}, options \in CalcOptions,
             rows \in UNION {[1..n -> CalcRows] : n \in 0..MaxRows}, tprs \in {0, 2} :
                calc = CalcStart(7, Some(1451606400), period, options,
                                 <<"select ", "{{period}}">>, rows, tprs)

NextCalc == CalcMain \/ CalcMetric

SpecCalc == InitCalc /\ [][NextCalc]_vars

----------------------------------------------------------------------------
(* Reading the batch back *)

\* days since 1970-01-01 of a calendar date
DaysFromCivil(y, m, d) ==
    LET yy == IF m <= 2 THEN y - 1 ELSE y
        era == yy \div 400
        yoe == yy - era * 400
        doy == ((153 * (IF m > 2 THEN m - 3 ELSE m + 9) + 2) \div 5) + d - 1
        doe == yoe * 365 + (yoe \div 4) - (yoe \div 100) + doy
    IN  era * 146097 + doe - 719468

\* the instant a "YYYY-MM-DD HH:MM:SS" text denotes
ParseYMDHMS(s) ==
    DaysFromCivil(StrToNat(SubSeq(s, 1, 4)), StrToNat(SubSeq(s, 6, 7)),
                  StrToNat(SubSeq(s, 9, 10))) * Day
        + StrToNat(SubSeq(s, 12, 13)) * Hour + StrToNat(SubSeq(s, 15, 16)) * Minute
        + StrToNat(SubSeq(s, 18, 19))

IsQuickRange(p) == p.name = "quick_ranges"

\* the quick ranges of the batch in emission order, read from their tags
EmittedRanges(points) ==
    LET q == SelectSeq(points, IsQuickRange)
    IN  [i \in 1..Len(q) |->
            LET t == Unwrap(q[i].tags)
                f == Split(t.quick_ranges_data, ";")
            IN  [suffix |-> t.quick_ranges_suffix,
                 name |-> t.quick_ranges_name,
                 key |-> f[1],
                 token |-> f[2],
                 from |-> IF f[3] = <<>> THEN None ELSE Some(ParseYMDHMS(f[3])),
                 to |-> IF f[4] = <<>> THEN None ELSE Some(ParseYMDHMS(f[4])),
                 time |-> q[i].time]]

PhaseSuffixes == {SfxCB, SfxCN, SfxCJI, SfxCIG, SfxCIN, SfxCJG, SfxCGN}

IsPhase(r) == r.suffix \in PhaseSuffixes

\* the point is a quick range of a milestone phase
IsPhasePoint(p) ==
    IsQuickRange(p) /\ Unwrap(p.tags).quick_ranges_suffix \in PhaseSuffixes

\* the milestone-phase ranges of the batch in emission order
PhaseRanges == EmittedRanges(SelectSeq(pts, IsPhasePoint))

PhaseSfx == [i \in 1..Len(PhaseRanges) |-> PhaseRanges[i].suffix]

Emitted(sfx) == \E i \in 1..Len(PhaseRanges) : PhaseRanges[i].suffix = sfx

\* the range of suffix sfx spans [from, to)
Spans(sfx, from, to) ==
    \E i \in 1..Len(PhaseRanges) :
        /\ PhaseRanges[i].suffix = sfx
        /\ PhaseRanges[i].key = sfx
        /\ PhaseRanges[i].from = Some(from)
        /\ PhaseRanges[i].to = Some(to)

\* the range of suffix sfx spans from `from` to the start of the day after a
\* reading of the clock taken by this run
SpansToTomorrow(sfx, from) ==
    \E k \in 1..Len(nowlog) : Spans(sfx, from, NextDayStart(nowlog[k]))

\* suffix a is emitted and suffix b directly after it
Adjacent(a, b) ==
    \E i \in 1..(Len(PhaseSfx) - 1) : PhaseSfx[i] = a /\ PhaseSfx[i + 1] = b

\* the annotations of the tag history before the sort, in discovery order
Discovered ==
    ParseTags(git.stdout, CompileRegexp(proj.annotation_regexp), <<>>).annotations

Kept(a) == \E k \in 1..Len(annotations) : annotations[k] = a

\* the rows the batch of this run stores in the table of series name
BatchRows(name) == SeqToBag(StoredRows(PointsOf(pts, name)))

\* the suffix ends in the two characters _n
EndsInUnderscoreN(sfx) ==
    Len(sfx) >= 2 /\ sfx[Len(sfx) - 1] = "_" /\ sfx[Len(sfx)] = "n"

\* this run has executed its INSERT of the quick-range points
QuickRangesInserted ==
    /\ ~ctx.skip_tsdb
    /\ pc \in {"insert", "shared", "done"}
    /\ Len(pts) > 0
    /\ \A k \in 1..Len(todo) : todo[k].table # "tquick_ranges"

----------------------------------------------------------------------------
(* Claims *)

\* C1: after the sort-and-deduplicate step of get_annotations the kept
\* annotations are in ascending timestamp order and no two of them have the
\* same truncated-hour bucket.
C1_SortedDistinctHours ==
    pc = "process" =>
        \A i, j \in 1..Len(annotations) :
            i < j => /\ annotations[i].date <= annotations[j].date
                     /\ HourStart(annotations[i].date) # HourStart(annotations[j].date)

\* three tags were discovered out of order, two of them in one hour, and one
\* of the two was dropped
C1_Witness ==
    /\ pc = "process"
    /\ Len(Discovered) = 3
    /\ Len(annotations) = 2
    /\ Discovered[1].date > Discovered[3].date
    /\ HourStart(Discovered[2].date) = HourStart(Discovered[3].date)

\* C2: deduplication is first-wins per hour: a discovered annotation is kept
\* exactly when no annotation of the same hour is earlier, or equally early
\* and discovered before it; so the earliest annotation of the timeline and
\* the earliest annotation of every hour is kept.
C2_FirstWinsPerHour ==
    pc = "process" =>
        \A i \in 1..Len(Discovered) :
            Kept(Discovered[i]) <=>
                ~\E j \in 1..Len(Discovered) :
                    /\ HourStart(Discovered[j].date) = HourStart(Discovered[i].date)
                    /\ \/ Discovered[j].date < Discovered[i].date
                       \/ Discovered[j].date = Discovered[i].date /\ j < i

\* C6: no milestone-phase range is emitted whose from instant is at or after
\* its to instant.  (The guards compare the milestone dates with each other
\* and never with the clock: a range that ends at the start of tomorrow is
\* emitted also for a milestone date that lies after it.)
C6_NoEmptyPhaseRange ==
    pc = "done" =>
        \A i \in 1..Len(PhaseRanges) :
            Unwrap(PhaseRanges[i].from) < Unwrap(PhaseRanges[i].to)

\* C7: c_b = [start, join) and c_n = [join, start of tomorrow) are emitted,
\* first and in this order, exactly when start and join are present and
\* join > start; otherwise no milestone-phase range is emitted at all.
\* (C7 to C10 are about the ranges in the batch of a call that returns; a
\* call that panics on an empty timeline emits no batch.)
C7_BeforeAndSinceJoin ==
    pc = "done" =>
        IF IsSome(dates[1]) /\ IsSome(dates[2]) /\ Unwrap(dates[2]) > Unwrap(dates[1])
        THEN /\ Len(PhaseSfx) >= 2
             /\ PhaseSfx[1] = SfxCB
             /\ PhaseSfx[2] = SfxCN
             /\ \A i \in 3..Len(PhaseSfx) : PhaseSfx[i] \notin {SfxCB, SfxCN}
             /\ Spans(SfxCB, Unwrap(dates[1]), Unwrap(dates[2]))
             /\ SpansToTomorrow(SfxCN, Unwrap(dates[2]))
        ELSE PhaseSfx = <<>>

\* the call returned c_b and c_n for a join date after the start date, and
\* nothing else
C7_Witness ==
    /\ pc = "done"
    /\ PhaseSfx = <<SfxCB, SfxCN>>
    /\ IsSome(dates[3])
    /\ Unwrap(dates[2]) > Unwrap(dates[1])

StartJoinOk ==
    IsSome(dates[1]) /\ IsSome(dates[2]) /\ Unwrap(dates[2]) > Unwrap(dates[1])

OrderOk ==
    IsNone(dates[3]) \/ IsNone(dates[4]) \/ Unwrap(dates[4]) > Unwrap(dates[3])

\* C8: with join > start, c_j_i = [join, incubating) is emitted exactly when
\* the order of incubating and graduated is correct, incubating is present
\* and incubating > join; it is directly followed by c_i_g = [incubating,
\* graduated) when graduated is present and by c_i_n = [incubating, start of
\* tomorrow) otherwise, and neither c_i_g nor c_i_n is emitted without it.
C8_IncubatingRanges ==
    (pc = "done" /\ StartJoinOk) =>
        /\ Emitted(SfxCJI) <=>
                (OrderOk /\ IsSome(dates[3]) /\ Unwrap(dates[3]) > Unwrap(dates[2]))
        /\ Emitted(SfxCJI) =>
                /\ Spans(SfxCJI, Unwrap(dates[2]), Unwrap(dates[3]))
                /\ IF IsSome(dates[4])
                   THEN /\ Adjacent(SfxCJI, SfxCIG)
                        /\ Spans(SfxCIG, Unwrap(dates[3]), Unwrap(dates[4]))
                        /\ ~Emitted(SfxCIN)
                   ELSE /\ Adjacent(SfxCJI, SfxCIN)
                        /\ SpansToTomorrow(SfxCIN, Unwrap(dates[3]))
                        /\ ~Emitted(SfxCIG)
        /\ ~Emitted(SfxCJI) => ~Emitted(SfxCIG) /\ ~Emitted(SfxCIN)
        /\ \A i, j \in 1..Len(PhaseSfx) :
                (i # j /\ PhaseSfx[i] = PhaseSfx[j]) =>
                    PhaseSfx[i] \notin {SfxCJI, SfxCIG, SfxCIN}

\* the call returned c_j_i directly followed by c_i_n
C8_Witness ==
    /\ pc = "done"
    /\ StartJoinOk
    /\ Adjacent(SfxCJI, SfxCIN)
    /\ IsNone(dates[4])

Scenario2015 ==
    dates = <<Some(1420070400), Some(1451606400), Some(1483228800), Some(1514764800), None>>

\* C10 as stated: in the scenario the milestone-phase ranges emitted are
\* c_b, c_n, c_j_i and c_i_g.
C10_ScenarioRanges ==
    (pc = "done" /\ Scenario2015) => PhaseSfx = <<SfxCB, SfxCN, SfxCJI, SfxCIG>>

\* C10, amended: in the scenario the milestone-phase ranges emitted are
\* c_b, c_n, c_j_i, c_i_g and c_g_n, in this order; c_j_g and c_i_n are not
\* emitted.
C10_ScenarioRangesWithCGN ==
    (pc = "done" /\ Scenario2015) =>
        /\ PhaseSfx = <<SfxCB, SfxCN, SfxCJI, SfxCIG, SfxCGN>>
        /\ ~Emitted(SfxCJG)
        /\ ~Emitted(SfxCIN)

\* the call returned for the scenario, with a tag history of two tags
C10_Witness ==
    /\ pc = "done"
    /\ Scenario2015
    /\ Len(annotations) = 2
    /\ Len(PhaseSfx) > 0

\* C3: once a run that follows another run has executed its insert of the
\* quick-range points, every row of the quick-range table whose suffix ends
\* in _n is a row of this run: none that an earlier run wrote is left,
\* whether or not the DELETE of this run succeeded.
C3_NoStaleVolatileRows ==
    (run >= 2 /\ QuickRangesInserted) =>
        \A r \in BagToSet(db.tables["tquick_ranges"]) :
            EndsInUnderscoreN(r.quick_ranges_suffix) =>
                CopiesIn(r, db.tables["tquick_ranges"]) <= CopiesIn(r, BatchRows("quick_ranges"))

\* C4: a second successful run with the same inputs and the same clock
\* readings leaves the destination tables as the first run left them.
C4_Idempotent ==
    (run = 2 /\ pc = "done" /\ ~ctx.skip_tsdb /\ hist[1].pc = "done"
        /\ nowlog = hist[1].nowlog) =>
        db.tables = hist[1].tables

\* C5: a successful run that follows an aborted run leaves the destination
\* tables as a successful run on the initial (empty) tables leaves them.
C5_AbortedRunLeavesNothing ==
    (run = 2 /\ pc = "done" /\ ~ctx.skip_tsdb /\ hist[1].pc = "err") =>
        db.tables = [tannotations |-> BatchRows("annotations"),
                     tquick_ranges |-> BatchRows("quick_ranges")]

\* the suffixes and display names of the fixed relative ranges
FixedRanges ==
    << <<<<"d">>, "Last day">>, <<<<"w">>, "Last week">>,
       <<<<"d", "1", "0">>, "Last 10 days">>, <<<<"m">>, "Last month">>,
       <<<<"q">>, "Last quarter">>, <<<<"m", "6">>, "Last 6 months">>,
       <<<<"y">>, "Last year">>, <<<<"y", "2">>, "Last 2 years">>,
       <<<<"y", "3">>, "Last 3 years">>, <<<<"y", "5">>, "Last 5 years">>,
       <<<<"y", "1", "0">>, "Last decade">>,
       <<<<"y", "1", "0", "0">>, "Last century">> >>

\* the quick ranges a call of create_quick_ranges has pushed when it returns
\* or panics
Pushed == EmittedRanges(pts)

\* C11: every call of create_quick_ranges emits the twelve fixed relative
\* ranges first, in the order d, w, d10, m, q, m6, y, y2, y3, y5, y10, y100,
\* each with its display name, a duration token and empty from and to,
\* whatever the annotation timeline and the milestone dates are.
C11_FixedRangesFirst ==
    pc \in {"done", "panic"} =>
        /\ Len(Pushed) >= Len(FixedRanges)
        /\ \A i \in 1..Len(FixedRanges) :
            /\ Pushed[i].suffix = FixedRanges[i][1]
            /\ Pushed[i].key = FixedRanges[i][1]
            /\ Pushed[i].name = Lit(FixedRanges[i][2])
            /\ Pushed[i].token # <<>>
            /\ Pushed[i].from = None
            /\ Pushed[i].to = None

\* a call with two annotations and four milestone dates returned the twelve
\* fixed ranges followed by annotation and milestone-phase ranges
C11_Witness ==
    /\ pc = "done"
    /\ Len(annotations) = 2
    /\ Len(PhaseRanges) = 5
    /\ Len(Pushed) = 12 + 2 + 5
    /\ Pushed[12].suffix = <<"y", "1", "0", "0">>
    /\ Pushed[13].from # None

IsAnnotationRange(r) == r.suffix[1] = "a"

\* the consecutive-annotation ranges of the batch in emission order
AnnotationRanges == SelectSeq(Pushed, IsAnnotationRange)

\* C12: for a sorted, deduplicated timeline of n >= 1 annotations exactly n
\* consecutive-annotation ranges are emitted, in index order and directly
\* after the fixed ranges: for i < n-1 the range a_i_(i+1) named
\* "name_i - name_(i+1)" spanning [time_i, time_(i+1)), and for i = n-1 the
\* range a_(n-1)_n named "name_(n-1) - now" spanning from time_(n-1) to the
\* start of the day after a clock reading of the run.
C12_AnnotationRanges ==
    (pc = "done" /\ Len(annotations) >= 1) =>
        LET pushed == Pushed
            ranges == SelectSeq(pushed, IsAnnotationRange)
        IN  /\ Len(ranges) = Len(annotations)
            /\ \A i \in 1..Len(annotations) :
                /\ pushed[Len(FixedRanges) + i] = ranges[i]
                /\ ranges[i].key = ranges[i].suffix
                /\ ranges[i].from = Some(annotations[i].date)
                /\ IF i < Len(annotations)
                   THEN /\ ranges[i].suffix =
                            <<"a", "_">> \o IntToStr(i - 1) \o <<"_">> \o IntToStr(i)
                        /\ ranges[i].name =
                            annotations[i].name \o Lit(" - ") \o annotations[i + 1].name
                        /\ ranges[i].to = Some(annotations[i + 1].date)
                   ELSE /\ ranges[i].suffix =
                            <<"a", "_">> \o IntToStr(i - 1) \o <<"_", "n">>
                        /\ ranges[i].name = annotations[i].name \o Lit(" - now")
                        /\ \E k \in 1..Len(nowlog) :
                            ranges[i].to = Some(NextDayStart(nowlog[k]))

\* a timeline of two annotations gave a_0_1 and a_1_n
C12_Witness ==
    /\ pc = "done"
    /\ Len(annotations) = 2
    /\ Len(AnnotationRanges) = 2
    /\ AnnotationRanges[1].suffix = <<"a", "_", "0", "_", "1">>
    /\ AnnotationRanges[2].suffix = <<"a", "_", "1", "_", "n">>
    /\ AnnotationRanges[1].to = AnnotationRanges[2].from

\* the volatile ranges of the batch: those whose suffix ends in _n
IsVolatile(r) == EndsInUnderscoreN(r.suffix)

\* C13: the start of tomorrow is computed once per run: all volatile quick
\* ranges emitted in one run (a_i_n, c_n, c_i_n, c_g_n) carry the same to
\* instant, also when the clock advances between the emission of two of
\* them.
C13_OneStartOfTomorrow ==
    pc = "done" =>
        LET volatile == SelectSeq(Pushed, IsVolatile)
        IN  \A i, j \in 1..Len(volatile) : volatile[i].to = volatile[j].to

\* C14: the k-th quick-range point emitted (k = 0, 1, 2, ... over fixed,
\* consecutive-annotation and milestone-phase ranges) has the synthetic time
\* 2012-07-01T00:00:00Z + k hours, so the times are strictly increasing, one
\* hour apart, and no two quick-range points of a run share an hour bucket.
C14_HourSpacedTimes ==
    pc \in {"done", "panic"} =>
        LET pushed == Pushed
        IN  /\ \A k \in 1..Len(pushed) : pushed[k].time = MinDate + (k - 1) * Hour
            /\ \A k, l \in 1..Len(pushed) :
                k < l => /\ pushed[k].time < pushed[l].time
                         /\ HourStart(pushed[k].time) # HourStart(pushed[l].time)

\* a call with one annotation emitted c_b, c_n, c_j_i and c_i_n, the last
\* of them sixteen hours after the epoch floor
C14_Witness ==
    /\ pc = "done"
    /\ Len(annotations) = 1
    /\ PhaseSfx = <<SfxCB, SfxCN, SfxCJI, SfxCIN>>
    /\ Len(Pushed) = 17
    /\ Pushed[17].time = MinDate + 16 * Hour

\* the line is not empty and has not exactly two separators
MalformedLine(line) ==
    /\ \E i \in 1..Len(line) : line[i] \notin WhiteSpace
    /\ Cardinality({i \in 1..Len(line) : line[i] = Sep}) # 2

\* the project has a tag source and its filter pattern does not compile or
\* a line of its tag history is malformed
MalformedSource ==
    /\ proj.main_repo # <<>>
    /\ \/ proj.annotation_regexp.text # <<>> /\ ~proj.annotation_regexp.valid
       \/ \E k \in 1..Len(git.stdout) : MalformedLine(git.stdout[k])

\* no table of the project database and of the shared database holds a row
NothingWritten ==
    /\ \A t \in DOMAIN db.tables : db.tables[t] = EmptyBag
    /\ \A t \in DOMAIN shared.tables : shared.tables[t] = EmptyBag

\* C15: a malformed annotation source (a filter pattern that does not
\* compile, or a non-empty line that has not exactly three fields) aborts
\* the run before any DELETE or INSERT is issued: no point of the run is
\* written, also none for the well-formed lines before the malformed one.
C15_MalformedSourceWritesNothing ==
    MalformedSource =>
        /\ pc \in {"start", "exit", "err"}
        /\ pts = <<>>
        /\ todo = <<>>
        /\ NothingWritten

\* a run against a database was aborted by a line of four fields that
\* follows a well-formed line
C15_Witness ==
    /\ ~ctx.skip_tsdb
    /\ pc = "exit"
    /\ Len(git.stdout) = 2
    /\ ~MalformedLine(git.stdout[1])
    /\ MalformedLine(git.stdout[2])
    /\ NothingWritten

\* the fields of a tag line
Fields(line) == Split(Trim(line), Sep)

\* the tag source is well-formed: the repository is org/repo, the command
\* succeeded, the filter pattern compiles and every line that is not empty
\* has three fields
WellFormedSource ==
    /\ proj.main_repo = MainRepo
    /\ git.ok
    /\ proj.annotation_regexp.text # <<>> => proj.annotation_regexp.valid
    /\ \A k \in 1..Len(git.stdout) : ~MalformedLine(git.stdout[k])

\* the line is a tag that passes the filter and whose timestamp field is an
\* integer at or after the epoch floor
UsableLine(line) ==
    /\ \E i \in 1..Len(line) : line[i] \notin WhiteSpace
    /\ proj.annotation_regexp.text # <<>> =>
            Fields(line)[1] \in proj.annotation_regexp.matches
    /\ Fields(line)[2] # <<>>
    /\ IsSome(ParseI64(Fields(line)[2]))
    /\ Unwrap(ParseI64(Fields(line)[2])) >= MinDate

\* the subject of every usable line can be cut to the length of a description
SubjectsCut ==
    \A k \in 1..Len(git.stdout) :
        UsableLine(git.stdout[k]) => IsSome(Message(Fields(git.stdout[k])[3]))

\* C16: a three-field tag line whose timestamp field is empty, is not an
\* integer or denotes an instant before the epoch floor is dropped without
\* aborting: the run goes on, the other lines are processed in order, and
\* every annotation of tag extraction is at or after the epoch floor.
\* (What the subject of a line with a usable timestamp does to the run is
\* C19's matter, so the statement is about histories whose subjects can be
\* cut.)
C16_BadTimestampsDropped ==
    (pc # "start" /\ WellFormedSource /\ SubjectsCut) =>
        LET usable == SelectSeq(git.stdout, UsableLine)
            found == Discovered
        IN  /\ pc = "process"
            /\ Len(found) = Len(usable)
            /\ \A i \in 1..Len(usable) :
                /\ found[i].name = Fields(usable[i])[1]
                /\ found[i].date = Unwrap(ParseI64(Fields(usable[i])[2]))
            /\ \A i \in 1..Len(annotations) :
                /\ annotations[i].date >= MinDate
                /\ \E k \in 1..Len(found) : found[k] = annotations[i]

\* a line with an empty timestamp and a line with a timestamp before the
\* epoch floor were dropped and the third line gave the only annotation
C16_Witness ==
    /\ pc = "process"
    /\ Len(git.stdout) = 3
    /\ \A k \in 1..3 : Len(Fields(git.stdout[k])) = 3
    /\ Fields(git.stdout[1])[2] = <<>>
    /\ Fields(git.stdout[2])[2] = IntToStr(MinDate - 1)
    /\ Len(annotations) = 1
    /\ annotations[1].name = Fields(git.stdout[3])[1]

\* C17: with an empty annotation timeline process_annotations and
\* create_quick_ranges run to completion: the batch holds the twelve fixed
\* ranges, no range between annotations, and after them only the ranges of
\* the milestone phases.
C17_EmptyTimelineCompletes ==
    (pc \notin {"start", "process"} /\ Len(annotations) = 0) =>
        LET pushed == Pushed
        IN  /\ pc = "done"
            /\ Len(pushed) >= Len(FixedRanges)
            /\ \A k \in 1..Len(FixedRanges) : pushed[k].suffix = FixedRanges[k][1]
            /\ \A k \in 1..Len(pushed) : ~IsAnnotationRange(pushed[k])
            /\ \A k \in (Len(FixedRanges) + 1)..Len(pushed) : IsPhase(pushed[k])

\* C18: for the tags v1.0 at the epoch floor and v1.1 a day later with a
\* subject of more than 40 characters, and no filter, get_annotations returns
\* two annotations, v1.0 then v1.1, the second description cut to 40
\* characters, and the removal of duplicates removes nothing.
C18_ReleaseTagsScenario ==
    (pc # "start" /\ WellFormedSource /\ git.stdout = ReleaseTags
        /\ proj.annotation_regexp = NoRegexp) =>
        /\ pc = "process"
        /\ Len(annotations) = 2
        /\ annotations[1].name = <<"v", "1", ".", "0">>
        /\ annotations[1].date = MinDate
        /\ annotations[2].name = <<"v", "1", ".", "1">>
        /\ annotations[2].date = MinDate + Day
        /\ annotations[2].description = Ascii(MaxMessage)
        /\ annotations = Discovered

\* the subject cut to its first 40 characters, then with every newline,
\* carriage return and tab replaced by one space
CutToChars(subject) ==
    [i \in 1..(IF Len(subject) > MaxMessage THEN MaxMessage ELSE Len(subject)) |->
        IF subject[i] \in {"\n", "\r", "\t"} THEN " " ELSE subject[i]]

\* C19: the description of a tag is its subject cut to the first 40
\* characters (counted in characters, not bytes) with every newline, carriage
\* return and tab replaced by one space; the operation always succeeds and
\* the description has at most 40 characters.  Stated of a history of one
\* tag: the run goes on and an annotation it gives has that description.
C19_DescriptionCutToChars ==
    (pc # "start" /\ WellFormedSource /\ Len(git.stdout) = 1
        /\ UsableLine(git.stdout[1])) =>
        /\ pc = "process"
        /\ \A i \in 1..Len(annotations) :
            /\ annotations[i].description = CutToChars(Fields(git.stdout[1])[3])
            /\ Len(annotations[i].description) <= MaxMessage

\* the start and join dates are a valid pair: both present, both at or
\* after the epoch floor, and join after start
ValidPair(s, j) ==
    /\ IsSome(s) /\ IsSome(j)
    /\ Unwrap(s) >= MinDate /\ Unwrap(j) >= MinDate
    /\ Unwrap(j) > Unwrap(s)

\* C20: for a project without a tag source, a valid pair of start and join
\* dates gives exactly the two annotations "Project start" at start and
\* "First CNCF project join date" at join, in that order; a join date in a
\* pair that is not valid gives no annotation; a start date alone gives the
\* one annotation "Project start"; without a start date nothing is produced
\* and the run ends without writing.
C20_MilestoneOnlySynthesis ==
    (pc # "start" /\ proj.main_repo = <<>>) =>
        /\ ValidPair(proj.start_date, proj.join_date) =>
            /\ pc = "process"
            /\ Len(annotations) = 2
            /\ annotations[1].name = Lit("Project start")
            /\ annotations[1].date = Unwrap(proj.start_date)
            /\ annotations[2].name = Lit("First CNCF project join date")
            /\ annotations[2].date = Unwrap(proj.join_date)
        /\ (IsSome(proj.start_date) /\ IsSome(proj.join_date)
                /\ ~ValidPair(proj.start_date, proj.join_date)) =>
            /\ pc = "process"
            /\ annotations = <<>>
        /\ (IsSome(proj.start_date) /\ IsNone(proj.join_date)) =>
            /\ pc = "process"
            /\ Len(annotations) = 1
            /\ annotations[1].name = Lit("Project start")
            /\ annotations[1].date = Unwrap(proj.start_date)
        /\ IsNone(proj.start_date) =>
            /\ pc = "done"
            /\ annotations = <<>>
            /\ pts = <<>> /\ todo = <<>>
            /\ NothingWritten

\* a project without a tag source whose start and join dates gave the two
\* annotations
C20_Witness ==
    /\ pc = "process"
    /\ proj.main_repo = <<>>
    /\ ValidPair(proj.start_date, proj.join_date)
    /\ Len(annotations) = 2
    /\ annotations[2].date = Unwrap(proj.join_date)

\* C28: the suffixes of the quick ranges a call of create_quick_ranges
\* emits are pairwise distinct; c_i_g and c_i_n are never both emitted, c_j_g
\* is never emitted together with c_j_i, and at most one range between
\* annotations has a suffix ending in _n.
C28_DistinctSuffixes ==
    pc \in {"done", "panic"} =>
        LET pushed == Pushed
            sfx == {pushed[k].suffix : k \in 1..Len(pushed)}
        IN  /\ \A i, j \in 1..Len(pushed) :
                    i # j => pushed[i].suffix # pushed[j].suffix
            /\ ~(SfxCIG \in sfx /\ SfxCIN \in sfx)
            /\ ~(SfxCJG \in sfx /\ SfxCJI \in sfx)
            /\ \A i, j \in 1..Len(pushed) :
                    (IsAnnotationRange(pushed[i]) /\ IsAnnotationRange(pushed[j])
                        /\ IsVolatile(pushed[i]) /\ IsVolatile(pushed[j])) => i = j

\* two annotations and the ranges of a project that moved to incubation and
\* graduated: c_j_i, c_i_g and c_g_n, and neither c_i_n nor c_j_g
C28_Witness ==
    /\ pc = "done"
    /\ Len(annotations) = 2
    /\ PhaseSfx = <<SfxCB, SfxCN, SfxCJI, SfxCIG, SfxCGN>>
    /\ Len(Pushed) = 19
    /\ Pushed[14].suffix = SfxLast(1)

\* no table of the database has more copies of a row after the step
NoRowAdded ==
    \A t \in DOMAIN db.tables :
        \A r \in BagToSet(db'.tables[t]) :
            CopiesIn(r, db'.tables[t]) <= CopiesIn(r, db.tables[t])

\* the step leaves every table other than the quick-range table as it is,
\* and in the quick-range table every row whose suffix does not end in _n
KeepsNonVolatile ==
    /\ DOMAIN db'.tables = DOMAIN db.tables
    /\ \A t \in DOMAIN db.tables \ {"tquick_ranges"} : db'.tables[t] = db.tables[t]
    /\ "tquick_ranges" \in DOMAIN db.tables =>
            \A r \in BagToSet(db.tables["tquick_ranges"]) :
                ~EndsInUnderscoreN(r.quick_ranges_suffix) =>
                    CopiesIn(r, db'.tables["tquick_ranges"])
                        = CopiesIn(r, db.tables["tquick_ranges"])

\* C29: the DELETE of process_annotations is issued before any INSERT of the
\* run, removes no quick-range row whose suffix does not end in _n and no row
\* of another table, and adds nothing; with skip_tsdb neither the DELETE nor
\* an INSERT is issued.
C29_DeleteFrame ==
    [][/\ pc = "delete" =>
            /\ todo \in Statements(pts)
            /\ todo' = todo
            /\ KeepsNonVolatile
            /\ NoRowAdded
       /\ pc # "insert" => NoRowAdded
       /\ ctx.skip_tsdb =>
            /\ db' = db
            /\ pc' \notin {"delete", "insert", "shared"}]_vars

\* the DELETE of a second run has removed rows of the first run, kept others,
\* and no INSERT of the second run has been executed yet
C29_Witness ==
    /\ run = 2
    /\ pc = "insert"
    /\ todo \in Statements(pts)
    /\ "tquick_ranges" \in DOMAIN db.tables
    /\ db.tables["tquick_ranges"] # EmptyBag
    /\ db.tables["tquick_ranges"] # hist[1].tables["tquick_ranges"]
    /\ db.tables["tannotations"] = hist[1].tables["tannotations"]
    /\ db.tables["tannotations"] # EmptyBag

\* the annotation points of the batch with the title
Titled(title) ==
    SelectSeq(pts, LAMBDA p : p.name = "annotations" /\ Unwrap(p.fields).title = Lit(title))

\* the date is absent and no point has the title, or the date is present and
\* exactly one point has the title, at that date
MilestoneEmitted(date_opt, title) ==
    IF IsSome(date_opt)
    THEN Len(Titled(title)) = 1 /\ Titled(title)[1].time = HourStart(Unwrap(date_opt))
    ELSE Titled(title) = <<>>

\* C30: for a project without a tag source process_annotations gets no start
\* and no join date: the batch has no milestone-phase range and no "Project
\* start date" or "CNCF join date" annotation point, whatever the dates of
\* the project are, and it has the annotation points of the incubating,
\* graduated and archived dates that are present.
C30_MilestoneOnlyRun ==
    (proj.main_repo = <<>> /\ IsSome(proj.start_date) /\ pc \in {"done", "panic"}) =>
        /\ dates[1] = None /\ dates[2] = None
        /\ PhaseRanges = <<>>
        /\ Titled("Project start date") = <<>>
        /\ Titled("CNCF join date") = <<>>
        /\ MilestoneEmitted(proj.incubating_date, "Moved to incubating state")
        /\ MilestoneEmitted(proj.graduated_date, "Graduated")
        /\ MilestoneEmitted(proj.archived_date, "Archived")

\* a project without a tag source that joined after its start, moved to
\* incubation, graduated after joining and was archived: the run returned a
\* batch with the two synthesized annotations and the three milestone
\* annotations
C30_Witness ==
    /\ pc = "done"
    /\ proj.main_repo = <<>>
    /\ Len(annotations) = 2
    /\ IsSome(proj.join_date) /\ IsSome(proj.incubating_date)
    /\ IsSome(proj.graduated_date) /\ IsSome(proj.archived_date)
    /\ Unwrap(proj.graduated_date) > Unwrap(proj.incubating_date)
    /\ Unwrap(proj.graduated_date) > Unwrap(proj.join_date)
    /\ Len(Titled("Graduated")) = 1
    /\ Len(Pushed) = 14

\* the statements of the batch that are no longer pending
Executed ==
    UNION {{stmts[k] : k \in 1..(Len(stmts) - Len(todo))} :
            stmts \in {o \in Statements(pts) :
                        /\ Len(todo) <= Len(o)
                        /\ todo = SubSeq(o, Len(o) - Len(todo) + 1, Len(o))}}

\* the table of the statement holds the rows of the statement
RowsStored(stmt) ==
    /\ stmt.table \in DOMAIN db.tables
    /\ \A r \in BagToSet(SeqToBag(StoredRows(stmt.points))) :
            CopiesIn(r, db.tables[stmt.table])
                >= CopiesIn(r, SeqToBag(StoredRows(stmt.points)))

\* C27: when the INSERT of a chunk fails the writer returns the error and
\* issues no further INSERT, the rows of the chunks inserted before stay in
\* their tables, and process_annotations ends with the error without writing
\* to the shared database.
C27_InsertFailureStops ==
    [][/\ (pc = "insert" /\ IsNone(Insert(db.tables, db.unique, Head(todo)))) =>
            /\ pc' = "err"
            /\ db' = db /\ todo' = todo /\ shared' = shared
       /\ (pc = "insert" /\ pc' = "err") =>
            /\ db' = db /\ todo' = todo /\ shared' = shared
            /\ \A stmt \in Executed : RowsStored(stmt)
       /\ pc = "err" =>
            /\ db' = db /\ shared' = shared
            /\ pc' \notin {"insert", "shared"}]_vars

\* the second INSERT of a run has failed: the rows of the first are in their
\* table, the shared database of the project has not been written
C27_Witness ==
    /\ pc = "err"
    /\ run = 1
    /\ Len(todo) = 1
    /\ ctx.shared_db # <<>>
    /\ Executed # {}
    /\ \A stmt \in Executed : RowsStored(stmt) /\ Len(stmt.points) > 0
    /\ \A t \in DOMAIN shared.tables : shared.tables[t] = EmptyBag

\* the row the claim gives a point in a statement whose first point is
\* sample: the time, the start of its hour, the tags of the sample (the empty
\* string for a tag the point has not) and the fields of the sample (NULL
\* for a field the point has not)
ExpectedRow(point, sample) ==
    [c \in {"time", "time_hour"} \cup Keys(sample.tags) \cup Keys(sample.fields) |->
        IF c = "time" THEN ToYMDHMSDate(point.time) \o <<".", "0", "0", "0">>
        ELSE IF c = "time_hour"
            THEN ToYMDHMSDate(HourStart(point.time)) \o <<".", "0", "0", "0">>
        ELSE IF c \in Keys(sample.tags)
            THEN (IF c \in Keys(point.tags) THEN Unwrap(point.tags)[c] ELSE <<>>)
        ELSE (IF c \in Keys(point.fields) THEN Unwrap(point.fields)[c] ELSE Null)]

\* the rows of the points of a series, each under the first point of its
\* statement of at most ChunkSize points
ExpectedTable(name) ==
    LET tp == PointsOf(pts, name)
    IN  SeqToBag([i \in 1..Len(tp) |->
                    ExpectedRow(tp[i], tp[((i - 1) \div ChunkSize) * ChunkSize + 1])])

\* C26: the writer puts every point of the batch exactly once into the table
\* named t followed by the name of its series and into no other table, with
\* INSERT statements of at most 1000 rows; the rows of a statement have the
\* columns time, time_hour and the tag and field keys of the first point of
\* the statement, with the empty string for a missing tag and NULL for a
\* missing field.
C26_EveryPointOnce ==
    /\ \A k \in 1..Len(todo) :
            /\ Len(todo[k].points) \in 1..1000
            /\ \A i \in 1..Len(todo[k].points) :
                    todo[k].table = "t" \o todo[k].points[i].name
    /\ pc \in {"shared", "done"} =>
            /\ todo = <<>>
            /\ \A name \in {"annotations", "quick_ranges"} :
                    IF "t" \o name \in DOMAIN db.tables
                    THEN db.tables["t" \o name] = ExpectedTable(name)
                    ELSE PointsOf(pts, name) = <<>>

\* a batch of a quick range with its three tags, a quick range with one tag
\* and an annotation has been written: the quick-range table holds two rows,
\* one of them with an empty name
C26_Witness ==
    /\ pc = "done"
    /\ Len(pts) = 3
    /\ Keys(pts[1].tags) = {"quick_ranges_suffix", "quick_ranges_name", "quick_ranges_data"}
    /\ Keys(pts[2].tags) = {"quick_ranges_suffix"}
    /\ pts[3].name = "annotations"
    /\ \E r \in BagToSet(db.tables["tquick_ranges"]) :
            r.quick_ranges_suffix = SfxCN /\ r.quick_ranges_name = <<>>
    /\ BagCardinality(db.tables["tquick_ranges"]) = 2
    /\ BagCardinality(db.tables["tannotations"]) = 1

----------------------------------------------------------------------------
(* calc_metric: the points of a result *)

\* a run of the time-series calculation that read every row
SeriesDone == calc.pc = "done" /\ ~calc.cfg.hist

IsWide(row) ==
    Len(row) >= 2 /\ row[1].kind = "text" /\ \E i \in 1..Len(row[1].val) : row[1].val[i] = ","

\* the number of commas of a key, plus one
NameCount(key) == Cardinality({i \in 1..Len(key) : key[i] = ","}) + 1

\* the number of lines a row that was read has printed
Emits(row) ==
    IF Len(row) = 0 THEN 0
    ELSE IF IsWide(row)
        THEN (IF NameCount(row[1].val) < Len(row) - 1 THEN NameCount(row[1].val)
              ELSE Len(row) - 1)
    ELSE 1

\* the number of lines printed before row i
RECURSIVE Offset(_)
Offset(i) == IF i <= 1 THEN 0 ELSE Offset(i - 1) + Emits(calc.rows[i - 1])

WidePointOf(row, k) ==
    [name |-> Split(row[1].val, ",")[k] \o <<"_">> \o calc.args.period
                    \o <<"_">> \o IntToStr(k - 1),
     value |-> (row[k + 1].val * calc.cfg.project_scale) \div 4]

\* C22: in non-histogram mode a row of at least two columns whose first column
\* is a comma-separated list of names emits one point per remaining column k,
\* named name_list[k-1]_period_(k-1) with value column_k times the scale, in
\* column order; the row ("alice,bob", 3.5, 7.0) with period d and scale 2.0
\* gives alice_d_0 = 7.0 and bob_d_1 = 14.0; a row whose first column is a
\* plain key emits the single point series_key_period = column_1 times the scale
C22_WideAndKeyedRows ==
    SeriesDone =>
        \A i \in 1..Len(calc.rows) :
            LET row == calc.rows[i]
                at == Offset(i)
            IN  /\ IsWide(row) =>
                    /\ \A k \in 1..(Len(row) - 1) :
                            /\ k <= NameCount(row[1].val)
                            /\ at + k <= Len(calc.out)
                            /\ calc.out[at + k] = WidePointOf(row, k)
                    /\ \/ i = Len(calc.rows) /\ Len(calc.out) = at + Len(row) - 1
                       \/ i < Len(calc.rows) /\ Offset(i + 1) = at + Len(row) - 1
                /\ (Len(row) >= 2 /\ row[1].kind = "text" /\ ~IsWide(row)) =>
                    /\ at + 1 <= Len(calc.out)
                    /\ calc.out[at + 1] =
                            [name |-> calc.args.series_name \o <<"_">> \o row[1].val
                                        \o <<"_">> \o calc.args.period,
                             value |-> (row[2].val * calc.cfg.project_scale) \div 4]

----------------------------------------------------------------------------
(* calc_metric: histograms *)

\* a run of the histogram calculation that read every row
HistogramDone == calc.pc = "done" /\ calc.cfg.hist

\* the number of histogram lines printed before row i: a row of fewer than
\* two columns prints none
RECURSIVE HistOffset(_)
HistOffset(i) ==
    IF i <= 1 THEN 0
    ELSE HistOffset(i - 1) + (IF Len(calc.rows[i - 1]) >= 2 THEN 1 ELSE 0)

\* C23: in histogram mode every row (bucket_name, value) is emitted under the
\* series name and every row of three or more columns (series_key,
\* bucket_name, value) under series_name_series_key, one output per row, and
\* the value emitted is the value read, whatever the scale is
C23_HistogramUnscaled ==
    HistogramDone =>
        /\ Len(calc.out) = HistOffset(Len(calc.rows) + 1)
        /\ \A i \in 1..Len(calc.rows) :
            LET row == calc.rows[i]
            IN  /\ Len(row) = 2 =>
                    calc.out[HistOffset(i) + 1] =
                        [name |-> calc.args.series_name, bucket |-> row[1].val,
                         value |-> row[2].val]
                /\ Len(row) >= 3 =>
                    calc.out[HistOffset(i) + 1] =
                        [name |-> calc.args.series_name \o <<"_">> \o row[1].val,
                         bucket |-> row[2].val, value |-> row[3].val]

C23_Witness ==
    /\ HistogramDone
    /\ calc.cfg.project_scale = 8
    /\ calc.rows = << <<Text(Lit("open")), F64(14)>>,
                      <<Text(Lit("open")), Text(Lit("0-1h")), F64(4), F64(8)>> >>
    /\ calc.out = << [name |-> Lit("prs"), bucket |-> Lit("open"), value |-> 14],
                     [name |-> <<"prs", "_", "open">>, bucket |-> Lit("0-1h"), value |-> 4] >>

----------------------------------------------------------------------------
(* calc_metric: the SQL text and the destination tables *)

Placeholders == {"{{from}}", "{{to}}", "{{period}}", "{{exclude_bots}}"}

\* C24: in the time-series and in the histogram mode every occurrence of
\* {{from}}, {{to}}, {{period}} and {{exclude_bots}} in the template is
\* substituted before the query is executed: the SQL text submitted holds
\* none of the four placeholders
C24_NoPlaceholderSubmitted ==
    IsSome(calc.sql) =>
        \A i \in 1..Len(Unwrap(calc.sql)) : Unwrap(calc.sql)[i] \notin Placeholders

\* the tables the option drop lists
DropListed == {calc.cfg.drop_tables[i] : i \in 1..Len(calc.cfg.drop_tables)}

\* C25: when the option drop:table1;table2 is given, every listed destination
\* table is truncated in that invocation, before any point of the metric is
\* emitted, so that no row of an earlier run is left
C25_DropTruncatesFirst ==
    (calc.pc = "done" \/ (calc.pc # "idle" /\ calc.out # <<>>)) =>
        /\ Lit("tprs") \in DropListed => calc.tables.tprs = 0
        /\ Lit("tother") \in DropListed => calc.tables.tother = 0


====
